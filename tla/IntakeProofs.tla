----------------------------- MODULE IntakeProofs -----------------------------
(***************************************************************************)
(* Proofs about the intake of one upload, for every value of its           *)
(* constants: what the watchdog holds against a client, for any pace of    *)
(* the client and of the backend; what becomes of a raw body, for any      *)
(* bytes, limits and cuts; and what becomes of a form, for any header      *)
(* lines, data, boundary, limits and cuts.  The last is proved layer by    *)
(* layer: the text of a form, the parser in it, the framer over its bytes, *)
(* the header block read apart, one piece, one read, the verdict.          *)
(***************************************************************************)
EXTENDS IntakeProperties, TLAPS, SequenceTheorems, WellFoundedInduction

(* The history: totals that only grow.                                     *)
Ticks == Len(paid)
Paid(i) == IF i < 1 THEN 0 ELSE paid[i]

Growing ==
  /\ paid \in Seq(Nat) /\ paid # <<>>
  /\ \A i, j \in DOMAIN paid : i <= j => paid[i] <= paid[j]

(* The meter: what is charged began at tick Since of those waited, and the *)
(* window is what was read from some point of that tick on.                *)
Since == Ticks - Waited

Clocks ==
  /\ now \in Nat
  /\ due \in {now, now + 1}
  /\ meter.since \in Nat \cup {None} /\ meter.since <= now
  /\ meter.waited \in Nat /\ meter.window \in Nat

Metering ==
  /\ meter.window < StallMinBytes
  /\ meter.since = None <=> pump = "putting"
  /\ Since \in 1..Ticks
  /\ paid[Ticks] - paid[Since] <= meter.window
  /\ meter.window <= paid[Ticks] - Paid(Since - 1)

(* The watchdog: no more than its limits go by, and the window before the  *)
(* one being charged was full.                                             *)
Patience ==
  /\ up.stall # None =>
       /\ Waited <= up.stall
       /\ ~Awake => Waited < up.stall
       /\ Since = 1 \/ paid[Since] - Paid(Since - up.stall - 1) >= StallMinBytes
  /\ up.limit # None =>
       /\ now <= up.limit
       /\ ~Awake => now < up.limit

(* A raw body: what came is what was sent, within its limits so far.       *)
Within(size, limit) == limit # None => size <= limit

RawSoFar ==
  up.raw =>
    /\ {"error", "stored", "enough"} \subseteq DOMAIN body
    /\ body.error = "none" /\ body.enough = FALSE
    /\ body.stored \in Seq(STRING)
    /\ body.stored \o unread = up.bytes
    /\ Within(Len(body.stored), up.expectedSize) /\ Within(Len(body.stored), up.maxSize)

Control ==
  /\ up \in Uploads
  /\ pump \in {"waiting", "putting", "over", "cancelled"}
  /\ unread \in Seq(STRING)

Charged == Growing /\ Clocks /\ (Pumping => Metering /\ Patience)

IInv == Control /\ Charged /\ (Pumping => RawSoFar) /\ OnlyTheClientsTime /\ RawRight

----------------------------------------------------------------------------
(* Sequences, and which error is the first.                                *)

LEMMA CutInTwo ==
  ASSUME NEW S, NEW s \in Seq(S), NEW n \in 1..Len(s)
  PROVE  /\ SubSeq(s, 1, n) \in Seq(S) /\ Len(SubSeq(s, 1, n)) = n
         /\ From(s, n + 1) \in Seq(S)
         /\ SubSeq(s, 1, n) \o From(s, n + 1) = s
<1>1. SubSeq(s, 1, n) \in Seq(S) /\ Len(SubSeq(s, 1, n)) = n
  BY SubSeqProperties
<1>2. From(s, n + 1) \in Seq(S)
  BY SubSeqProperties DEF From
<1>3. SubSeq(s, 1, n) \o SubSeq(s, n + 1, Len(s)) = SubSeq(s, 1, Len(s))
  BY ConcatAdjacentSubSeq
<1>4. SubSeq(s, 1, Len(s)) = s
  BY SubSeqFull
<1> QED BY <1>1, <1>2, <1>3, <1>4 DEF From

LEMMA FirstOfTwo ==
  ASSUME NEW a, NEW b
  PROVE  FirstError(<<a, b>>) = IF a # "none" THEN a ELSE b
<1> DEFINE errors == <<a, b>>
           bad == {i \in DOMAIN errors : errors[i] # "none"}
<1>0. DOMAIN errors = {1, 2} /\ errors[1] = a /\ errors[2] = b
  OBVIOUS
<1>1. CASE a # "none"
  <2>1. 1 \in bad /\ \A i \in bad : 1 <= i /\ i \in Int
    BY <1>0, <1>1
  <2>2. Min(bad) = 1
    BY <2>1 DEF Min
  <2> QED BY <2>1, <2>2, <1>1, <1>0 DEF FirstError
<1>2. CASE a = "none" /\ b # "none"
  <2>1. bad = {2}
    BY <1>0, <1>2
  <2>2. Min(bad) = 2
    BY <2>1 DEF Min
  <2> QED BY <2>1, <2>2, <1>2, <1>0 DEF FirstError
<1>3. CASE a = "none" /\ b = "none"
  <2>1. bad = {}
    BY <1>0, <1>3
  <2> QED BY <2>1, <1>3 DEF FirstError
<1> QED BY <1>1, <1>2, <1>3

LEMMA FirstOfThree ==
  ASSUME NEW a, NEW b, NEW c
  PROVE  FirstError(<<a, b, c>>) = IF a # "none" THEN a ELSE IF b # "none" THEN b ELSE c
<1> DEFINE errors == <<a, b, c>>
           bad == {i \in DOMAIN errors : errors[i] # "none"}
<1>0. DOMAIN errors = {1, 2, 3} /\ errors[1] = a /\ errors[2] = b /\ errors[3] = c
  OBVIOUS
<1>1. CASE a # "none"
  <2>1. 1 \in bad /\ \A i \in bad : 1 <= i /\ i \in Int
    BY <1>0, <1>1
  <2>2. Min(bad) = 1
    BY <2>1 DEF Min
  <2> QED BY <2>1, <2>2, <1>1, <1>0 DEF FirstError
<1>2. CASE a = "none" /\ b # "none"
  <2>1. 2 \in bad /\ \A i \in bad : 2 <= i /\ i \in Int
    BY <1>0, <1>2
  <2>2. Min(bad) = 2
    BY <2>1 DEF Min
  <2> QED BY <2>1, <2>2, <1>2, <1>0 DEF FirstError
<1>3. CASE a = "none" /\ b = "none" /\ c # "none"
  <2>1. bad = {3}
    BY <1>0, <1>3
  <2>2. Min(bad) = 3
    BY <2>1 DEF Min
  <2> QED BY <2>1, <2>2, <1>3, <1>0 DEF FirstError
<1>4. CASE a = "none" /\ b = "none" /\ c = "none"
  <2>1. bad = {}
    BY <1>0, <1>4
  <2> QED BY <2>1, <1>4 DEF FirstError
<1> QED BY <1>1, <1>2, <1>3, <1>4

LEMMA Limits ==
  ASSUME NEW u \in Uploads
  PROVE  /\ u.bytes \in Seq(STRING)
         /\ u.raw \in BOOLEAN
         /\ u.stall \in {None} \cup (Nat \ {0}) /\ u.limit \in {None} \cup (Nat \ {0})
         /\ u.maxSize \in {None} \cup Nat /\ u.expectedSize \in {None} \cup Nat
         /\ u.expectedSize # None /\ u.maxSize # None => u.expectedSize <= u.maxSize
  BY IntakeAssumption

(* A size past a limit is past it for the whole file too, and for the same *)
(* limit.                                                                  *)
LEMMA SizesAgree ==
  ASSUME NEW u \in Uploads, NEW part \in Nat, NEW whole \in Nat, part <= whole
  PROVE  /\ SizeError(u, part) # "none" =>
              /\ LengthError(u, whole) = SizeError(u, part)
              /\ SizeError(u, part) \in {"size_mismatch", "too_large"}
         /\ SizeError(u, part) = "none" <=>
              Within(part, u.expectedSize) /\ Within(part, u.maxSize)
         /\ LengthError(u, whole) = SizeError(u, whole)
  BY Limits DEF SizeError, LengthError, Within, None

----------------------------------------------------------------------------
(* Initially.                                                              *)

LEMMA IInvInit == Init => IInv
<1> SUFFICES ASSUME Init PROVE IInv
  OBVIOUS
<1>1. Control
  BY Limits DEF Init, Control
<1>2. paid = <<0>> /\ Len(paid) = 1 /\ paid[1] = 0 /\ DOMAIN paid = {1} /\ paid \in Seq(Nat)
  BY DEF Init
<1>3. Growing
  BY <1>2 DEF Growing
<1>4. Waited = 0 /\ Since = 1 /\ Ticks = 1 /\ ~Awake
  BY <1>2 DEF Init, Waited, Since, Ticks, Awake, None
<1>5. Clocks
  BY DEF Init, Clocks, None
<1>6. Metering
  BY <1>2, <1>4, IntakeAssumption DEF Init, Metering, Paid, None
<1>7. Patience
  BY <1>4, Limits DEF Init, Patience, None
<1>8. RawSoFar
  <2> SUFFICES ASSUME up.raw PROVE RawSoFar
    BY DEF RawSoFar
  <2>1. /\ body.error = "none" /\ ~body.enough /\ body.stored = <<>> /\ unread = up.bytes
        /\ body.enough = FALSE /\ {"error", "stored", "enough"} \subseteq DOMAIN body
    BY DEF Init, NewBody
  <2>2. <<>> \in Seq(STRING) /\ Len(<<>>) = 0 /\ <<>> \o up.bytes = up.bytes
    BY Limits, <1>1, ConcatEmptySeq DEF Control
  <2> QED BY <2>1, <2>2, <1>1, Limits DEF RawSoFar, Within, None, Control
<1>9. OnlyTheClientsTime /\ RawRight
  BY DEF Init, OnlyTheClientsTime, RawRight
<1> QED BY <1>1, <1>3, <1>5, <1>6, <1>7, <1>8, <1>9 DEF IInv, Charged

----------------------------------------------------------------------------
(* The steps, first what they do to the watchdog's reckoning.              *)

LEMMA Counts ==
  ASSUME Growing
  PROVE  /\ Ticks \in Nat \ {0} /\ DOMAIN paid = 1..Ticks /\ paid \in Seq(Nat)
         /\ \A i \in 1..Ticks : paid[i] \in Nat
         /\ \A i, j \in 1..Ticks : i <= j => paid[i] <= paid[j]
<1>1. paid \in Seq(Nat) /\ paid # <<>> /\ \A i, j \in DOMAIN paid : i <= j => paid[i] <= paid[j]
  BY DEF Growing
<1>2. Ticks \in Nat \ {0} /\ DOMAIN paid = 1..Ticks
  BY <1>1 DEF Ticks
<1>3. \A i \in 1..Ticks : paid[i] \in Nat
  BY <1>1, <1>2
<1> QED BY <1>1, <1>2, <1>3

LEMMA Totals ==
  ASSUME Growing
  PROVE  /\ Ticks \in Nat \ {0} /\ DOMAIN paid = 1..Ticks
         /\ \A i \in Int : i <= Ticks => Paid(i) \in Nat
         /\ \A i, j \in Int : i <= j /\ j <= Ticks => Paid(i) <= Paid(j)
         /\ \A i \in 1..Ticks : Paid(i) = paid[i]
         /\ Last(paid) = Paid(Ticks)
<1>1. Ticks \in Nat \ {0} /\ DOMAIN paid = 1..Ticks /\ \A i \in 1..Ticks : paid[i] \in Nat
  BY Counts
<1>2. \A i, j \in 1..Ticks : i <= j => paid[i] <= paid[j]
  BY Counts
<1>3. \A i \in Int : i <= Ticks => Paid(i) \in Nat
  BY <1>1 DEF Paid
<1>4. \A i, j \in Int : i <= j /\ j <= Ticks => Paid(i) <= Paid(j)
  BY <1>1, <1>2, <1>3 DEF Paid
<1>5. \A i \in 1..Ticks : Paid(i) = paid[i]
  BY <1>1 DEF Paid
<1> QED BY <1>1, <1>3, <1>4, <1>5 DEF Last, Ticks

(* What is waited is charged as a number of ticks.                         *)
LEMMA WaitedType ==
  ASSUME Clocks
  PROVE  /\ Waited \in Nat /\ Waited >= meter.waited
         /\ Waited = meter.waited + (IF meter.since = None THEN 0 ELSE now - meter.since)
         /\ meter.since # None => meter.since \in Nat
  BY DEF Clocks, Waited, None

(* A read adds to the tick it is in; a full window starts the next charge  *)
(* there, and a window that is not leaves the charge as it was.            *)
LEMMA ReadIsCharged ==
  ASSUME IInv, NEW n \in Nat \ {0}, pump = "waiting",
         paid' = [paid EXCEPT ![Len(paid)] = @ + n],
         pump' \in {"waiting", "putting", "over"},
         meter'.since = IF pump' = "waiting" THEN now ELSE None,
         meter'.waited = Metered(n).waited, meter'.window = Metered(n).window,
         UNCHANGED <<up, now, due>>
  PROVE  Charged'
<1> DEFINE full == meter.window + n >= StallMinBytes
           Then(i) == IF i < 1 THEN 0 ELSE paid'[i]
<1>1. Growing /\ Clocks /\ Metering /\ Patience /\ up \in Uploads
  BY DEF IInv, Charged, Pumping, Control
<1>2. /\ Ticks \in Nat \ {0} /\ DOMAIN paid = 1..Ticks /\ paid \in Seq(Nat)
      /\ \A i \in 1..Ticks : paid[i] \in Nat
  BY <1>1, Counts, Zenon
<1>3. /\ Ticks' = Ticks /\ DOMAIN paid' = 1..Ticks /\ paid' \in Seq(Nat) /\ paid' # <<>>
      /\ paid'[Ticks] = paid[Ticks] + n
      /\ \A i \in 1..Ticks : i # Ticks => paid'[i] = paid[i]
  <2>1. Len(paid) \in 1..Len(paid) /\ paid[Len(paid)] + n \in Nat
    BY <1>2 DEF Ticks
  <2>2. paid' \in Seq(Nat) /\ Len(paid') = Len(paid)
    BY <2>1, <1>2, ExceptSeq
  <2>3. DOMAIN paid' = DOMAIN paid
    OBVIOUS
  <2>4. paid' # <<>> /\ Ticks' = Ticks /\ DOMAIN paid' = 1..Ticks
    BY <2>2, <2>3, <1>2 DEF Ticks
  <2>5. PICK l : l = Ticks
    OBVIOUS
  <2>6. paid' = [paid EXCEPT ![l] = paid[l] + n] /\ DOMAIN paid = 1..l /\ l \in 1..l
    BY <2>1, <2>5, <1>2 DEF Ticks
  <2>7. paid'[l] = paid[l] + n /\ \A i \in 1..l : i # l => paid'[i] = paid[i]
    BY <2>6, Zenon
  <2> QED BY <2>2, <2>4, <2>5, <2>7, Zenon
<1>0. paid[Ticks] \in Nat /\ paid'[Ticks] \in Nat /\ paid'[Ticks] = paid[Ticks] + n
  BY <1>2, <1>3
<1>4. Growing'
  <2> SUFFICES ASSUME NEW i \in 1..Ticks, NEW j \in 1..Ticks, i <= j PROVE paid'[i] <= paid'[j]
    BY <1>3 DEF Growing
  <2>1. paid[i] <= paid[j] /\ paid[i] \in Nat /\ paid[j] \in Nat
    BY <1>1, <1>2 DEF Growing
  <2> QED BY <2>1, <1>2, <1>3
<1>5. /\ meter'.since = (IF pump' = "waiting" THEN now ELSE None)
      /\ meter'.waited = (IF full THEN 0 ELSE meter.waited + now - meter.since)
      /\ meter'.window = (IF full THEN 0 ELSE meter.window + n)
  BY DEF Metered
<1>6. /\ meter.since \in Nat /\ now \in Nat /\ meter.since <= now /\ meter.waited \in Nat
      /\ meter.window \in Nat /\ Waited \in Nat /\ Waited = meter.waited + (now - meter.since)
  BY <1>1, WaitedType DEF Metering, Clocks
<1>7. Clocks'
  BY <1>1, <1>5, <1>6 DEF Clocks, None
<1>8. Waited' = IF full THEN 0 ELSE Waited
  <2>1. Waited' = meter'.waited + (IF meter'.since = None THEN 0 ELSE now - meter'.since)
    BY DEF Waited
  <2>2. (IF meter'.since = None THEN 0 ELSE now - meter'.since) = 0
    BY <1>5, <1>6 DEF None
  <2>3. meter'.waited \in Nat
    BY <1>7 DEF Clocks
  <2>4. Waited' = meter'.waited
    BY <2>1, <2>2, <2>3
  <2> QED BY <2>4, <1>5, <1>6
<1>9. Since' = IF full THEN Ticks ELSE Since
  BY <1>8, <1>3, <1>2 DEF Since
<1>10. Since \in 1..Ticks /\ paid[Since] \in Nat
  BY <1>1, <1>2 DEF Metering
<1>11. \A i \in Int : i < Ticks => Then(i) = Paid(i) /\ Paid(i) \in Nat
  BY <1>3, <1>2 DEF Paid
<1>12. \A i, j \in Int : i <= j /\ j <= Ticks => Paid(i) <= Paid(j)
  BY <1>1, Totals
<1>13. StallMinBytes \in Nat \ {0}
  BY IntakeAssumption
<1>14. Pumping' => (meter'.since = None <=> pump' = "putting")
  BY <1>5, <1>6 DEF Pumping, None
<1>15. ASSUME full PROVE Metering' \/ ~Pumping'
  <2>1. Waited' = 0 /\ Since' = Ticks /\ meter'.window = 0
    BY <1>15, <1>8, <1>9, <1>5
  <2>2. Then(Ticks - 1) <= paid[Ticks] /\ Then(Ticks - 1) \in Nat
    <3>1. Then(Ticks - 1) = Paid(Ticks - 1) /\ Paid(Ticks - 1) \in Nat
      BY <1>11, <1>2
    <3>2. Paid(Ticks - 1) <= Paid(Ticks) /\ Paid(Ticks) = paid[Ticks]
      BY <1>12, <1>2 DEF Paid
    <3> QED BY <3>1, <3>2
  <2>3. Then(Since' - 1) <= paid[Ticks]
    BY <2>1, <2>2
  <2>4. paid'[Ticks'] - paid'[Since'] = 0 /\ Since' \in 1..Ticks'
    BY <2>1, <1>3, <1>0, <1>2
  <2>5. 0 <= paid'[Ticks'] - Then(Since' - 1)
    <3>1. PICK x : x = Then(Since' - 1)
      OBVIOUS
    <3>2. x \in Nat /\ x <= paid[Ticks] /\ paid'[Ticks'] = paid[Ticks] + n /\ paid[Ticks] \in Nat
      BY <3>1, <2>1, <2>2, <1>0, <1>3
    <3> QED BY <3>1, <3>2
  <2>6. (Paid(Since - 1))' = Then(Since' - 1)
    BY DEF Paid
  <2> QED BY <2>1, <2>4, <2>5, <2>6, <1>13, <1>14 DEF Metering
<1>16. ASSUME ~full PROVE Metering' \/ ~Pumping'
  <2>1. Since' = Since /\ meter'.window = meter.window + n /\ meter.window + n < StallMinBytes
    BY <1>16, <1>9, <1>5, <1>6, <1>13
  <2>2. paid[Ticks] - paid[Since] <= meter.window /\ meter.window <= paid[Ticks] - Paid(Since - 1)
    BY <1>1 DEF Metering
  <2>3. paid'[Ticks] - paid'[Since] <= meter.window + n
    <3>1. CASE Since = Ticks
      <4>1. paid'[Ticks] - paid'[Since] = 0
        BY <3>1, <1>0
      <4> QED BY <4>1, <1>6
    <3>2. CASE Since # Ticks
      <4>1. paid'[Since] = paid[Since]
        BY <3>2, <1>10, <1>3
      <4>2. paid[Since] \in Nat /\ meter.window \in Nat
        BY <1>6, <1>10
      <4>3. paid[Ticks] - paid[Since] <= meter.window
        BY <2>2
      <4> QED BY <4>1, <4>2, <4>3, <1>0
    <3> QED BY <3>1, <3>2
  <2>4. Then(Since - 1) = Paid(Since - 1) /\ Paid(Since - 1) \in Nat
    BY <1>11, <1>10, <1>2
  <2>5. meter.window + n <= paid'[Ticks] - Then(Since - 1)
    <3> HIDE DEF Then
    <3>1. meter.window <= paid[Ticks] - Paid(Since - 1)
      BY <2>2
    <3>2. meter.window \in Nat
      BY <1>6
    <3> QED BY <3>1, <3>2, <2>4, <1>0
  <2>6. Then(Since' - 1) = Then(Since - 1)
    BY <2>1
  <2> QED BY <2>1, <2>3, <2>5, <2>6, <1>3, <1>10, <1>14 DEF Metering, Paid
<1>17. Patience'
  <2>1. up' = up /\ (Awake' <=> Awake)
    BY DEF Awake
  <2>2. ASSUME up.stall # None
        PROVE  /\ Waited' <= up.stall /\ (~Awake => Waited' < up.stall)
               /\ Since' = 1 \/ paid'[Since'] - Then(Since' - up.stall - 1) >= StallMinBytes
    <3>1. /\ up.stall \in Nat \ {0} /\ Waited <= up.stall /\ (~Awake => Waited < up.stall)
          /\ Since = 1 \/ paid[Since] - Paid(Since - up.stall - 1) >= StallMinBytes
      BY <2>2, <1>1, Limits DEF Patience
    <3>2. Waited' <= up.stall /\ (~Awake => Waited' < up.stall)
      BY <3>1, <1>8
    <3>3. CASE full
      <4> DEFINE was == Ticks - up.stall - 1
      <4>1. Since' = Ticks
        BY <3>3, <1>9
      <4>2. was \in Int /\ was < Ticks /\ was <= Since - 1 /\ Since - 1 \in Int /\ Since - 1 < Ticks
        <5>2. Since = Ticks - Waited /\ Ticks \in Nat /\ Waited \in Nat /\ up.stall \in Nat
          BY <3>1, <1>2, <1>6 DEF Since
        <5>1. was <= Ticks - Waited - 1
          <6>1. PICK t, w, s : t = Ticks /\ w = Waited /\ s = up.stall
            OBVIOUS
          <6>2. t \in Nat /\ w \in Nat /\ s \in Nat /\ w <= s
            BY <5>2, <6>1, <3>1
          <6>3. t - s - 1 <= t - w - 1
            BY <6>2
          <6> QED BY <6>1, <6>3
        <5> QED BY <5>1, <5>2
      <4>3. Paid(was) <= Paid(Since - 1) /\ Then(was) = Paid(was)
            /\ Paid(was) \in Nat /\ Paid(Since - 1) \in Nat
        BY <4>2, <1>11, <1>12, <1>2
      <4>4. meter.window <= paid[Ticks] - Paid(Since - 1)
        BY <1>1 DEF Metering
      <4>5. paid'[Ticks] - Then(was) >= StallMinBytes
        <5> HIDE DEF Then, was
        <5>1. meter.window \in Nat /\ meter.window + n >= StallMinBytes
          BY <1>6, <3>3
        <5> QED BY <5>1, <4>3, <4>4, <1>0, <1>13
      <4>6. Then(Since' - up.stall - 1) = Then(was)
        BY <4>1
      <4> QED BY <4>1, <4>5, <4>6, <3>2
    <3>4. CASE ~full
      <4>1. Since' = Since
        BY <3>4, <1>9
      <4>2. Since - up.stall - 1 \in Int /\ Since - up.stall - 1 < Ticks
        BY <3>1, <1>10, <1>2
      <4>3. Then(Since - up.stall - 1) = Paid(Since - up.stall - 1)
            /\ Paid(Since - up.stall - 1) \in Nat
        BY <4>2, <1>11
      <4>4. paid'[Since] \in Nat /\ paid'[Since] >= paid[Since]
        BY <1>2, <1>3, <1>10
      <4>5. Since = 1 \/ paid'[Since] - Then(Since - up.stall - 1) >= StallMinBytes
        BY <4>3, <4>4, <3>1, <1>10, <1>13
      <4>6. Then(Since' - up.stall - 1) = Then(Since - up.stall - 1)
        BY <4>1
      <4> QED BY <4>1, <4>5, <4>6, <3>2
    <3> QED BY <3>3, <3>4
  <2>3. up.limit # None => now <= up.limit /\ (~Awake => now < up.limit)
    BY <1>1 DEF Patience
  <2> QED BY <2>1, <2>2, <2>3 DEF Patience, Paid
<1> QED BY <1>4, <1>7, <1>15, <1>16, <1>17 DEF Charged

(* Time passes: what waits on the client is charged, the backend's is not. *)
LEMMA TickIsCharged ==
  ASSUME IInv, Tick
  PROVE  Charged'
<1>1. Growing /\ Clocks /\ Metering /\ Patience /\ up \in Uploads
  BY DEF Tick, IInv, Charged, Control
<1>2. /\ Ticks \in Nat \ {0} /\ DOMAIN paid = 1..Ticks /\ paid \in Seq(Nat)
      /\ \A i \in 1..Ticks : paid[i] \in Nat
      /\ \A i, j \in 1..Ticks : i <= j => paid[i] <= paid[j]
  BY <1>1, Counts
<1>3. /\ now' = now + 1 /\ due = now + 1 /\ UNCHANGED <<up, pump, meter, due>>
      /\ ~Awake /\ Awake' /\ Pumping
  BY <1>1 DEF Tick, Clocks, Awake
<1>4. Clocks'
  BY <1>1, <1>3 DEF Clocks, None
<1>5. /\ Waited \in Nat /\ Waited' \in Nat
      /\ Waited = meter.waited + (IF meter.since = None THEN 0 ELSE now - meter.since)
      /\ Waited' = meter.waited + (IF meter.since = None THEN 0 ELSE (now + 1) - meter.since)
      /\ meter.since # None => meter.since \in Nat
      /\ now \in Nat /\ meter.waited \in Nat
  <2>1. Waited' \in Nat
    BY <1>4, <1>3 DEF Clocks, Waited, None
  <2>2. Waited' = meter.waited + (IF meter.since = None THEN 0 ELSE (now + 1) - meter.since)
    BY <1>3 DEF Waited
  <2> QED BY <2>1, <2>2, <1>1, WaitedType DEF Clocks
<1>6. Awake' /\ ~Awake
  BY <1>3
<1>7. ASSUME up.limit # None PROVE now' <= up.limit
  BY <1>7, <1>1, <1>3, <1>5, Limits DEF Patience
<1>8. CASE pump = "putting"
  <2>1. paid' = paid /\ meter.since = None
    BY <1>1, <1>8 DEF Tick, Metering
  <2>2. Waited' = Waited /\ Ticks' = Ticks /\ Since' = Since
    BY <2>1, <1>5 DEF Ticks, Since
  <2>3. Growing' /\ (Paid(Since - 1))' = Paid(Since - 1)
        /\ (Paid(Since - up.stall - 1))' = Paid(Since - up.stall - 1)
    BY <2>1, <2>2, <1>1, <1>3 DEF Growing, Paid
  <2>4. Metering'
    BY <1>1, <1>3, <2>1, <2>2, <2>3 DEF Metering
  <2>5. Patience'
    BY <1>1, <1>3, <1>7, <2>1, <2>2, <2>3 DEF Patience
  <2> QED BY <2>3, <2>4, <2>5, <1>4 DEF Charged
<1>9. CASE pump = "waiting"
  <2> DEFINE Then(i) == IF i < 1 THEN 0 ELSE paid'[i]
  <2>1. paid' = Append(paid, paid[Ticks]) /\ meter.since # None
    BY <1>1, <1>9 DEF Tick, Metering, Last, Ticks
  <2>2. Waited' = Waited + 1
    <3>1. meter.since \in Nat /\ now \in Nat /\ meter.waited \in Nat
      BY <2>1, <1>5
    <3>2. Waited = meter.waited + (now - meter.since) /\ Waited' = meter.waited + ((now + 1) - meter.since)
      BY <2>1, <1>5
    <3> QED BY <3>1, <3>2
  <2>3. /\ paid' \in Seq(Nat) /\ Ticks' = Ticks + 1 /\ paid' # <<>> /\ DOMAIN paid' = 1..(Ticks + 1)
        /\ paid'[Ticks + 1] = paid[Ticks]
        /\ \A i \in 1..Ticks : paid'[i] = paid[i]
    <3>1. paid[Ticks] \in Nat /\ Ticks = Len(paid)
      BY <1>2 DEF Ticks
    <3> QED BY <3>1, <2>1, <1>2, AppendProperties DEF Ticks
  <2>4. Since' = Since /\ Since \in 1..Ticks
    BY <2>2, <2>3, <1>1, <1>2, <1>5 DEF Since, Metering
  <2>5. Growing'
    <3> SUFFICES ASSUME NEW i \in 1..(Ticks + 1), NEW j \in 1..(Ticks + 1), i <= j
                 PROVE  paid'[i] <= paid'[j]
      BY <2>3 DEF Growing
    <3>1. CASE j \in 1..Ticks
      BY <3>1, <2>3, <1>2
    <3>2. CASE j = Ticks + 1 /\ i \in 1..Ticks
      BY <3>2, <2>3, <1>2
    <3>3. CASE j = Ticks + 1 /\ i = Ticks + 1
      BY <3>3, <2>3, <1>2
    <3> QED BY <3>1, <3>2, <3>3, <1>2
  <2>6. \A i \in Int : i <= Ticks => Then(i) = Paid(i)
    BY <2>3, <1>2 DEF Paid
  <2>7. Metering'
    <3>1. paid'[Ticks'] = paid[Ticks] /\ paid'[Since'] = paid[Since]
      BY <2>3, <2>4
    <3>2. Then(Since' - 1) = Paid(Since - 1)
      BY <2>4, <2>6, <1>2
    <3>3. Since' \in 1..Ticks'
      BY <2>4, <2>3, <1>2
    <3> QED BY <3>1, <3>2, <3>3, <1>1, <1>3 DEF Metering, Paid
  <2>8. Patience'
    <3> SUFFICES ASSUME up.stall # None
                 PROVE  /\ Waited' <= up.stall
                        /\ Since' = 1 \/ paid'[Since'] - Then(Since' - up.stall - 1) >= StallMinBytes
      BY <1>3, <1>7 DEF Patience, Paid
    <3>1. up.stall \in Nat /\ Waited < up.stall
          /\ (Since = 1 \/ paid[Since] - Paid(Since - up.stall - 1) >= StallMinBytes)
      BY <1>1, <1>3, Limits DEF Patience
    <3>2. Then(Since' - up.stall - 1) = Paid(Since - up.stall - 1) /\ paid'[Since'] = paid[Since]
      <4>1. Since - up.stall - 1 \in Int /\ Since - up.stall - 1 <= Ticks
        BY <3>1, <2>4, <1>2
      <4> QED BY <4>1, <2>3, <2>4, <2>6
    <3> QED BY <3>1, <3>2, <2>2, <2>4, <1>5
  <2> QED BY <2>5, <2>7, <2>8, <1>4 DEF Charged
<1> QED BY <1>3, <1>8, <1>9 DEF Pumping

(* The watchdog looks: it cancels, or waits on with patience left; a       *)
(* client it finds too slow has sent too little since its charge began.    *)
LEMMA WatchIsFair ==
  ASSUME IInv, Watch
  PROVE  Charged' /\ OnlyTheClientsTime'
<1>1. Growing /\ Clocks /\ Metering /\ Patience /\ up \in Uploads
  BY DEF Watch, IInv, Charged, Control
<1>2. UNCHANGED <<up, now, meter, paid>> /\ due' = now + 1 /\ Awake /\ now \in Nat
  BY <1>1 DEF Watch, Awake, Clocks
<1>3. UNCHANGED <<Ticks, Waited, Since>>
  BY <1>2 DEF Ticks, Waited, Since
<1>4. Growing' /\ Clocks'
  BY <1>1, <1>2 DEF Growing, Clocks, None
<1>5. Waited \in Nat /\ ~Awake'
  BY <1>1, <1>2, WaitedType DEF Awake
<1>6. ASSUME Pumping' PROVE Metering' /\ Patience'
  <2>1. /\ UNCHANGED <<pump, result>>
        /\ ~(up.limit # None /\ now >= up.limit) /\ ~(up.stall # None /\ Waited >= up.stall)
    BY <1>6 DEF Watch, Cancel, Pumping
  <2>2. Metering'
    BY <1>1, <1>2, <1>3, <2>1 DEF Metering, Paid
  <2>3. Patience'
    BY <1>1, <1>2, <1>3, <1>5, <2>1, Limits DEF Patience, Paid
  <2> QED BY <2>2, <2>3
<1>7. OnlyTheClientsTime'
  <2> SUFFICES ASSUME pump' = "cancelled", result' = "too_slow"
               PROVE  ReadOver(up.stall) < StallMinBytes
    BY <1>2 DEF OnlyTheClientsTime, ReadOver
  <2>1. up.stall \in Nat \ {0} /\ Waited >= up.stall
    BY <1>1, Limits DEF Watch, Cancel, Pumping
  <2>2. Ticks \in Nat \ {0} /\ Since \in 1..Ticks /\ Since = Ticks - Waited
    BY <1>1, Totals DEF Metering, Since
  <2>3. up.stall < Ticks /\ Since <= Ticks - up.stall /\ Ticks - up.stall \in 1..Ticks
    BY <2>1, <2>2, <1>5
  <2>4. /\ paid[Since] <= paid[Ticks - up.stall]
        /\ paid[Since] \in Nat /\ paid[Ticks - up.stall] \in Nat /\ paid[Ticks] \in Nat
    BY <2>2, <2>3, <1>1, Totals DEF Growing
  <2>5. paid[Ticks] - paid[Since] <= meter.window /\ meter.window < StallMinBytes
        /\ meter.window \in Nat
    BY <1>1 DEF Metering, Clocks
  <2>6. ReadOver(up.stall) = paid[Ticks] - paid[Ticks - up.stall]
    BY <2>3 DEF ReadOver, Last, Ticks
  <2> QED BY <2>4, <2>5, <2>6, IntakeAssumption
<1> QED BY <1>4, <1>6, <1>7 DEF Charged

----------------------------------------------------------------------------
(* What the steps do to a raw body.                                        *)

(* A raw body's verdict: the sizes, then the digest.                       *)
LEMMA RawVerdict ==
  ASSUME NEW u \in Uploads, u.raw, NEW b, NEW stored \in Seq(STRING), b.stored = stored
  PROVE  /\ FinalError(u, b) = IF b.error # "none" THEN b.error ELSE VerifyError(u, b)
         /\ FirstError(<<LengthError(u, Len(stored)), DeclaredError(u, stored)>>) =
              IF LengthError(u, Len(stored)) # "none" THEN LengthError(u, Len(stored))
              ELSE IF VerifyError(u, b) = "none" THEN "complete" ELSE VerifyError(u, b)
<1>1. EndError(u, b) = "none"
  BY DEF EndError
<1>2. FinalError(u, b) = IF b.error # "none" THEN b.error ELSE VerifyError(u, b)
  BY <1>1, FirstOfThree DEF FinalError
<1>3. DeclaredError(u, stored) = IF VerifyError(u, b) = "none" THEN "complete" ELSE VerifyError(u, b)
  BY DEF DeclaredError, VerifyError
<1> QED BY <1>2, <1>3, FirstOfTwo

LEMMA StringsJoin == \A s, t, u \in Seq(STRING) : s \o (t \o u) = (s \o t) \o u
  BY ConcatAssociative

(* A read brings what was sent next; it is refused for a limit the whole   *)
(* body breaks too.                                                        *)
LEMMA ReadIsRaw ==
  ASSUME IInv, NEW n \in 1..Len(unread), Read(n)
  PROVE  (Pumping => RawSoFar)' /\ RawRight'
<1> DEFINE chunk == SubSeq(unread, 1, n)
           b == IF up.raw THEN RawFeed(up, body, chunk) ELSE FormFeed(up, body, chunk)
           done == FinalError(up, b)
           refused == SizeError(up, Len(body.stored) + Len(chunk))
<1>1. up \in Uploads /\ unread \in Seq(STRING) /\ Pumping /\ RawSoFar
  BY DEF Read, IInv, Control, Pumping
<1>2. /\ up' = up /\ body' = b /\ unread' = From(unread, n + 1)
      /\ pump' = "over" => (b.error # "none" \/ b.enough)
                           /\ result' = (IF done = "none" THEN "complete" ELSE done)
      /\ Pumping' => ~(b.error # "none" \/ b.enough)
  BY DEF Read, End, Pumping
<1> SUFFICES ASSUME up.raw PROVE (Pumping => RawSoFar)' /\ RawRight'
  BY <1>2 DEF RawSoFar, RawRight
<1>3. /\ body.error = "none" /\ ~body.enough /\ body.stored \in Seq(STRING)
      /\ body.stored \o unread = up.bytes /\ up.bytes \in Seq(STRING)
      /\ Within(Len(body.stored), up.expectedSize) /\ Within(Len(body.stored), up.maxSize)
  BY <1>1, Limits DEF RawSoFar
<1>4. /\ chunk \in Seq(STRING) /\ unread' \in Seq(STRING) /\ chunk \o unread' = unread
      /\ Len(chunk) \in Nat /\ Len(body.stored) \in Nat /\ Len(up.bytes) \in Nat
  <2>1. chunk \in Seq(STRING) /\ From(unread, n + 1) \in Seq(STRING)
        /\ chunk \o From(unread, n + 1) = unread
    BY <1>1, CutInTwo
  <2>2. \A s \in Seq(STRING) : Len(s) \in Nat
    OBVIOUS
  <2> QED BY <2>1, <2>2, <1>2, <1>3
<1>5. /\ body.stored \o chunk \in Seq(STRING)
      /\ Len(body.stored \o chunk) = Len(body.stored) + Len(chunk)
      /\ (body.stored \o chunk) \o unread' = up.bytes
  <2>1. body.stored \o (chunk \o unread') = (body.stored \o chunk) \o unread'
    <3>1. \A s, t, u \in Seq(STRING) : s \o (t \o u) = (s \o t) \o u
      BY StringsJoin
    <3>2. /\ body.stored \in Seq(STRING) /\ chunk \in Seq(STRING) /\ unread' \in Seq(STRING)
      BY <1>3, <1>4
    <3> HIDE DEF chunk
    <3> QED BY <3>1, <3>2, Zenon
  <2> QED BY <2>1, <1>3, <1>4, ConcatProperties
<1>6. Len(body.stored) + Len(chunk) <= Len(up.bytes)
  <2>1. Len((body.stored \o chunk) \o unread') = Len(body.stored \o chunk) + Len(unread')
        /\ Len(unread') \in Nat
    BY <1>4, <1>5, ConcatProperties
  <2> QED BY <2>1, <1>4, <1>5
<1>7. b = [body EXCEPT !.error = refused, !.stored = IF refused = "none" THEN @ \o chunk ELSE @]
  BY DEF RawFeed
<1>8. /\ {"error", "stored", "enough"} \subseteq DOMAIN b
      /\ b.error = refused /\ b.enough = FALSE
      /\ b.stored = IF refused = "none" THEN body.stored \o chunk ELSE body.stored
  BY <1>7, <1>1, <1>3 DEF RawSoFar
<1>9. CASE refused = "none"
  <2>1. ~(b.error # "none" \/ b.enough) /\ pump' # "over"
    BY <1>8, <1>9, <1>2
  <2>2. Within(Len(body.stored) + Len(chunk), up.expectedSize)
        /\ Within(Len(body.stored) + Len(chunk), up.maxSize)
    BY <1>9, <1>1, <1>4, SizesAgree
  <2>3. RawSoFar'
    BY <1>2, <1>5, <1>8, <1>9, <2>1, <2>2 DEF RawSoFar
  <2> QED BY <2>1, <2>3 DEF RawRight
<1>10. CASE refused # "none"
  <2>1. /\ LengthError(up, Len(up.bytes)) = refused
        /\ refused \in {"size_mismatch", "too_large"}
    BY <1>10, <1>1, <1>4, <1>6, SizesAgree
  <2>2. done = refused
    <3>1. done = b.error
      BY <1>8, <1>10, <1>1, <1>3, RawVerdict
    <3> QED BY <3>1, <1>8
  <2>3. FirstError(<<LengthError(up, Len(up.bytes)), DeclaredError(up, up.bytes)>>) = refused
    BY <2>1, <1>10, FirstOfTwo
  <2>4. ~Pumping'
    BY <1>8, <1>10, <1>2
  <2>5. pump' = "over" => result' = refused
    BY <1>2, <2>2, <1>10
  <2> QED BY <2>1, <2>3, <2>4, <2>5, <1>2 DEF RawRight
<1> QED BY <1>9, <1>10

(* The body is over: what came is the whole of it.                         *)
LEMMA OverIsRaw ==
  ASSUME IInv, BodyOver
  PROVE  RawRight'
<1> DEFINE done == FinalError(up, body)
<1>1. /\ up \in Uploads /\ RawSoFar /\ unread = <<>>
      /\ UNCHANGED <<up, body>> /\ result' = (IF done = "none" THEN "complete" ELSE done)
  BY DEF BodyOver, End, IInv, Control, Pumping
<1> SUFFICES ASSUME up.raw
             PROVE  /\ body.stored = up.bytes
                    /\ result' = FirstError(<<LengthError(up, Len(up.bytes)),
                                              DeclaredError(up, up.bytes)>>)
  BY <1>1 DEF RawRight
<1>2. /\ body.error = "none" /\ body.stored \in Seq(STRING)
      /\ body.stored \o unread = up.bytes
      /\ Within(Len(body.stored), up.expectedSize) /\ Within(Len(body.stored), up.maxSize)
  BY <1>1 DEF RawSoFar
<1>3. body.stored = up.bytes
  BY <1>1, <1>2, ConcatEmptySeq
<1>4. LengthError(up, Len(up.bytes)) = "none"
  <2>1. Len(up.bytes) \in Nat
    BY <1>2, <1>3
  <2> QED BY <2>1, <1>1, <1>2, <1>3, SizesAgree
<1>5. done = VerifyError(up, body)
  BY <1>1, <1>2, RawVerdict
<1>6. FirstError(<<LengthError(up, Len(up.bytes)), DeclaredError(up, up.bytes)>>) =
        IF done = "none" THEN "complete" ELSE done
  BY <1>1, <1>2, <1>3, <1>4, <1>5, RawVerdict
<1> QED BY <1>1, <1>3, <1>6

----------------------------------------------------------------------------
(* Every step.                                                             *)

LEMMA IInvStep == IInv /\ [Next]_vars => IInv'
<1> SUFFICES ASSUME IInv, [Next]_vars PROVE IInv'
  OBVIOUS
<1>0. up \in Uploads /\ unread \in Seq(STRING) /\ Growing /\ Clocks
  BY DEF IInv, Control, Charged
<1>1. ASSUME NEW n \in 1..Len(unread), Read(n) PROVE IInv'
  <2> DEFINE chunk == SubSeq(unread, 1, n)
             b == IF up.raw THEN RawFeed(up, body, chunk) ELSE FormFeed(up, body, chunk)
  <2>1. /\ n \in Nat \ {0} /\ pump = "waiting" /\ UNCHANGED <<up, now, due>>
        /\ paid' = [paid EXCEPT ![Len(paid)] = @ + n]
        /\ pump' \in {"waiting", "putting", "over"} /\ unread' = From(unread, n + 1)
    BY <1>1 DEF Read, End
  <2>2. /\ meter'.since = IF pump' = "waiting" THEN now ELSE None
        /\ meter'.waited = Metered(n).waited /\ meter'.window = Metered(n).window
    <3>1. \/ meter' = Metered(n) /\ pump' \in {"putting", "over"}
          \/ meter' = [Metered(n) EXCEPT !.since = now] /\ pump' = "waiting"
      BY <1>1 DEF Read, End
    <3> QED BY <3>1 DEF Metered
  <2>3. Charged'
    BY <2>1, <2>2, ReadIsCharged
  <2>4. (Pumping => RawSoFar)' /\ RawRight'
    BY <1>1, ReadIsRaw
  <2>5. Control'
    BY <1>0, <2>1, CutInTwo DEF Control
  <2> QED BY <2>1, <2>3, <2>4, <2>5 DEF IInv, OnlyTheClientsTime
<1>2. ASSUME BodyOver PROVE IInv'
  <2>1. RawRight'
    BY <1>2, OverIsRaw
  <2>2. /\ UNCHANGED <<up, unread, body, now, due, paid>> /\ pump' = "over"
        /\ meter' = [meter EXCEPT !.since = None]
    BY <1>2 DEF BodyOver, End
  <2> QED BY <1>0, <2>1, <2>2
          DEF IInv, Control, Charged, Growing, Clocks, Pumping, OnlyTheClientsTime, None
<1>3. ASSUME Disconnect PROVE IInv'
  <2>1. /\ UNCHANGED <<up, unread, body, now, due, paid>> /\ pump' = "over"
        /\ meter' = [meter EXCEPT !.since = None] /\ result' = "client_disconnected"
    BY <1>3 DEF Disconnect, End
  <2> QED BY <1>0, <2>1
          DEF IInv, Control, Charged, Growing, Clocks, Pumping, OnlyTheClientsTime, RawRight, None
<1>4. ASSUME PutDone PROVE IInv'
  <2>1. /\ pump = "putting" /\ pump' = "waiting" /\ meter' = [meter EXCEPT !.since = now]
        /\ UNCHANGED <<up, unread, body, result, now, due, paid>>
    BY <1>4 DEF PutDone
  <2>2. Metering /\ Patience /\ RawSoFar /\ meter.since = None
    BY <2>1 DEF IInv, Charged, Pumping, Metering
  <2>3. Waited' = Waited /\ Since' = Since /\ Ticks' = Ticks
    BY <1>0, <2>1, <2>2 DEF Waited, Since, Ticks, Clocks, None
  <2>4. Growing' /\ Clocks' /\ RawSoFar' /\ Control'
    BY <1>0, <2>1, <2>2 DEF Growing, Clocks, RawSoFar, Control, None
  <2>5. Metering' /\ Patience'
    BY <1>0, <2>1, <2>2, <2>3 DEF Metering, Patience, Paid, Awake, Clocks, None
  <2> QED BY <2>1, <2>4, <2>5 DEF IInv, Charged, OnlyTheClientsTime, RawRight
<1>5. ASSUME Watch PROVE IInv'
  <2>1. Charged' /\ OnlyTheClientsTime'
    BY <1>5, WatchIsFair
  <2>2. /\ UNCHANGED <<up, unread, body>> /\ Pumping /\ pump' # "over"
        /\ pump' \in {pump, "cancelled"}
    BY <1>5 DEF Watch, Cancel, Pumping
  <2>3. RawSoFar' /\ Control' /\ RawRight'
    BY <2>2 DEF IInv, RawSoFar, Control, RawRight
  <2> QED BY <2>1, <2>3 DEF IInv
<1>6. ASSUME Tick PROVE IInv'
  <2>1. Charged'
    BY <1>6, TickIsCharged
  <2>2. UNCHANGED <<up, unread, body, pump, result>> /\ Pumping
    BY <1>6 DEF Tick
  <2> QED BY <2>1, <2>2 DEF IInv, RawSoFar, Control, RawRight, OnlyTheClientsTime, Pumping
<1>7. ASSUME UNCHANGED vars PROVE IInv'
  <2>1. UNCHANGED <<Ticks, Waited, Since, Awake>>
    BY <1>7 DEF vars, Ticks, Waited, Since, Awake
  <2> QED BY <1>7, <2>1
          DEF vars, IInv, Control, Charged, Growing, Clocks, Metering, Patience, Paid, RawSoFar,
              OnlyTheClientsTime, ReadOver, RawRight, Pumping
<1> QED BY <1>1, <1>2, <1>3, <1>4, <1>5, <1>6, <1>7 DEF Next

THEOREM Invariance == Spec => []IInv
<1> QED BY IInvInit, IInvStep, PTL DEF Spec

(* A client is refused as too slow only for its own slowness: for every    *)
(* pace of the client and of the backend, and every limit, it sent less    *)
(* than stall_min_bytes over the last stall_timeout spent waiting on it,   *)
(* and what a slow backend kept the pump waiting is not charged to it.     *)
(* And no trickle holds its slot: an upload still running after the        *)
(* watchdog looked has had stall_min_bytes over twice stall_timeout of     *)
(* waiting, and has not outlived upload_timeout (_watch, _pump).           *)
THEOREM SlowAndOnlySlowAreStopped == Spec => []WatchdogIsJust
<1>1. IInv => SlowIsStopped
  <2> SUFFICES ASSUME IInv, Pumping PROVE SlowIsStopped
    BY DEF SlowIsStopped
  <2>1. Growing /\ Clocks /\ Metering /\ Patience /\ up \in Uploads
    BY DEF IInv, Charged, Control
  <2>2. up.limit # None => now <= up.limit
    BY <2>1 DEF Patience
  <2>3. ASSUME up.stall # None, Len(paid) > 2 * up.stall, ~Awake
        PROVE  ReadOver(2 * up.stall) >= StallMinBytes
    <3> DEFINE from == Ticks - 2 * up.stall
               before == Since - up.stall - 1
    <3>1. /\ up.stall \in Nat \ {0} /\ Waited \in Nat /\ Waited < up.stall
          /\ Since = Ticks - Waited /\ Ticks \in Nat \ {0} /\ Ticks > 2 * up.stall
          /\ Since \in 1..Ticks
      BY <2>1, <2>3, Limits, Totals, WaitedType DEF Patience, Since, Ticks, Metering
    <3>2. /\ from \in 1..Ticks /\ before \in Int /\ from <= before /\ before <= Ticks
          /\ Since # 1 /\ 2 * up.stall < Ticks
      BY <3>1
    <3>3. paid[Since] - Paid(before) >= StallMinBytes
      BY <2>1, <2>3, <3>2 DEF Patience
    <3>4. ReadOver(2 * up.stall) = Paid(Ticks) - Paid(from)
      <4>1. paid[from] = Paid(from) /\ Last(paid) = Paid(Ticks)
        BY <3>2, <2>1, Totals
      <4> QED BY <4>1, <3>2 DEF ReadOver, Ticks
    <3>5. /\ Paid(from) <= Paid(before) /\ Paid(Since) <= Paid(Ticks) /\ paid[Since] = Paid(Since)
          /\ {Paid(from), Paid(before), Paid(Since), Paid(Ticks)} \subseteq Nat
      <4> HIDE DEF from, before
      <4> QED BY <3>1, <3>2, <2>1, Totals
    <3> HIDE DEF from, before
    <3> QED BY <3>3, <3>4, <3>5, IntakeAssumption
  <2> QED BY <2>2, <2>3 DEF SlowIsStopped
<1>2. IInv => WatchdogIsJust
  BY <1>1 DEF IInv, WatchdogIsJust
<1> QED BY <1>2, Invariance, PTL

(* A raw body's verdict is a matter of the body alone: for any bytes, cut  *)
(* in any way, and any limits, it is refused for its whole length or for   *)
(* its digest, and a complete one is stored byte for byte (_RawBody.feed,  *)
(* _FileTarget.on_data_received, verify).                                  *)
THEOREM RawBodiesAreReadRight == Spec => []RawRight
<1>1. IInv => RawRight
  BY DEF IInv
<1> QED BY <1>1, Invariance, PTL

----------------------------------------------------------------------------
(* Texts, and where a word is found in them.                               *)

(* Bytes: text, and the marks a form is made of.                           *)
Symbols == STRING \cup {"r", "l", "-", "x", "D", "O"}

LEMMA Symbolic ==
  ASSUME NEW s \in Seq(STRING)
  PROVE  s \in Seq(Symbols)
BY DEF Symbols

(* Two texts that agree symbol by symbol are one.                          *)
LEMMA SameText ==
  ASSUME NEW S, NEW s \in Seq(S), NEW t \in Seq(S), Len(s) = Len(t),
         \A i \in 1..Len(s) : s[i] = t[i]
  PROVE  s = t
OBVIOUS

(* A stretch of a text.                                                    *)
LEMMA Stretch ==
  ASSUME NEW S, NEW s \in Seq(S), NEW i \in Nat, NEW j \in Nat, 1 <= i, i <= j + 1, j <= Len(s)
  PROVE  /\ SubSeq(s, i, j) \in Seq(S)
         /\ Len(SubSeq(s, i, j)) = j - i + 1
         /\ \A n \in 1..(j - i + 1) : SubSeq(s, i, j)[n] = s[i + n - 1]
OBVIOUS

(* Two texts joined.                                                       *)
LEMMA Joined ==
  ASSUME NEW S, NEW s \in Seq(S), NEW t \in Seq(S)
  PROVE  /\ s \o t \in Seq(S) /\ Len(s \o t) = Len(s) + Len(t)
         /\ \A n \in 1..Len(s) : (s \o t)[n] = s[n]
         /\ \A n \in 1..Len(t) : (s \o t)[Len(s) + n] = t[n]
OBVIOUS

(* Two stretches that follow one another are one.                          *)
LEMMA Stretches ==
  ASSUME NEW S, NEW s \in Seq(S), NEW i \in Nat, NEW j \in Nat, NEW k \in Nat,
         1 <= i, i <= j + 1, j <= k, k <= Len(s)
  PROVE  SubSeq(s, i, j) \o SubSeq(s, j + 1, k) = SubSeq(s, i, k)
OBVIOUS

(* A stretch of a stretch.                                                 *)
LEMMA StretchWithin ==
  ASSUME NEW S, NEW s \in Seq(S), NEW i \in Nat, NEW j \in Nat, 1 <= i, i <= j + 1, j <= Len(s),
         NEW m \in Nat, NEW n \in Nat, 1 <= m, m <= n + 1, n <= j - i + 1
  PROVE  SubSeq(SubSeq(s, i, j), m, n) = SubSeq(s, i + m - 1, i + n - 1)
OBVIOUS

(* A later part of a prefix.                                               *)
LEMMA Shorter ==
  ASSUME NEW S, NEW s \in Seq(S), NEW k \in Nat, NEW y \in Nat, 1 <= y, y <= k + 1, k <= Len(s)
  PROVE  SubSeq(SubSeq(s, 1, k), y, k) = SubSeq(s, y, k)
OBVIOUS

(* What StartsWith compares.                                               *)
LEMMA Prefixed ==
  ASSUME NEW S, NEW s \in Seq(S), NEW t \in Seq(S), Len(t) <= Len(s)
  PROVE  SubSeq(s, 1, Len(t)) = t <=> \A i \in 1..Len(t) : s[i] = t[i]
OBVIOUS

(* The least of a set of numbers.                                          *)
LEMMA LeastIsIn ==
  ASSUME NEW S \in SUBSET Nat, S # {}
  PROVE  Min(S) \in S /\ \A y \in S : Min(S) <= y
<1>1. \E x \in S : \A y \in S : ~(<<y, x>> \in OpToRel(<, Nat))
  BY NatLessThanWellFounded, WFMin
<1>2. \E x \in S : \A y \in S : ~(y < x)
  BY <1>1 DEF OpToRel
<1>3. PICK x \in S : \A y \in S : x <= y
  BY <1>2
<1> QED BY <1>3 DEF Min

(* The word w stands in the text s at i, and what Find returns is the      *)
(* first such place.                                                       *)
Occurs(w, s, i) ==
  /\ i \in Nat \ {0} /\ i + Len(w) - 1 <= Len(s)
  /\ \A j \in 1..Len(w) : s[i + j - 1] = w[j]

LEMMA Occurrence ==
  ASSUME NEW S, NEW s \in Seq(S), NEW w \in Seq(S), NEW i \in 1..(Len(s) - Len(w) + 1)
  PROVE  SubSeq(s, i, i + Len(w) - 1) = w <=> Occurs(w, s, i)
<1>1. i \in Nat \ {0} /\ i + Len(w) - 1 <= Len(s)
  OBVIOUS
<1>2. /\ SubSeq(s, i, i + Len(w) - 1) \in Seq(S)
      /\ Len(SubSeq(s, i, i + Len(w) - 1)) = Len(w)
      /\ \A n \in 1..Len(w) : SubSeq(s, i, i + Len(w) - 1)[n] = s[i + n - 1]
  BY <1>1, Stretch
<1> QED BY <1>1, <1>2, SameText DEF Occurs

LEMMA Finds ==
  ASSUME NEW S, NEW s \in Seq(S), NEW w \in Seq(S)
  PROVE  /\ Find(s, w) \in Nat
         /\ Find(s, w) = 0 => \A i : ~Occurs(w, s, i)
         /\ Find(s, w) # 0 => Occurs(w, s, Find(s, w))
         /\ \A i : Occurs(w, s, i) => Find(s, w) <= i
<1> DEFINE hits == {i \in 1..(Len(s) - Len(w) + 1) : SubSeq(s, i, i + Len(w) - 1) = w}
<1>1. Find(s, w) = IF hits = {} THEN 0 ELSE Min(hits)
  BY DEF Find
<1>2. ASSUME NEW i PROVE Occurs(w, s, i) <=> i \in hits
  <2>1. Occurs(w, s, i) => i \in 1..(Len(s) - Len(w) + 1)
    BY DEF Occurs
  <2>2. i \in 1..(Len(s) - Len(w) + 1) =>
          (SubSeq(s, i, i + Len(w) - 1) = w <=> Occurs(w, s, i))
    BY Occurrence
  <2> QED BY <2>1, <2>2
<1>3. hits \in SUBSET Nat
  OBVIOUS
<1> HIDE DEF hits
<1> QED BY <1>1, <1>2, <1>3, LeastIsIn DEF Occurs

(* The texts a body is made of, symbol by symbol.                          *)
LEMMA Marks ==
  /\ CRLF \in Seq(Symbols) /\ Len(CRLF) = 2 /\ CRLF[1] = "r" /\ CRLF[2] = "l"
  /\ Open \in Seq(Symbols) /\ Len(Open) \in Nat /\ Len(Open) >= 2
  /\ \A i \in 1..Len(Open) : Open[i] \notin {"r", "l"}
  /\ Delimiter \in Seq(Symbols) /\ Len(Delimiter) = Len(Open) + 2
  /\ Delimiter[1] = "r" /\ Delimiter[2] = "l"
  /\ \A i \in 1..Len(Open) : Delimiter[i + 2] = Open[i]
  /\ Close \in Seq(Symbols) /\ Len(Close) = Len(Open) + 4
  /\ \A i \in 1..Len(Delimiter) : Close[i] = Delimiter[i]
  /\ Close[Len(Open) + 3] = "-" /\ Close[Len(Open) + 4] = "-"
<1>1. CRLF \in Seq(Symbols) /\ Len(CRLF) = 2 /\ CRLF[1] = "r" /\ CRLF[2] = "l"
  BY DEF CRLF, Symbols
<1> DEFINE dashes == <<"-", "-">>
<1>2. dashes \in Seq(Symbols) /\ Len(dashes) = 2 /\ dashes[1] = "-" /\ dashes[2] = "-"
  BY DEF Symbols
<1>3. Boundary \in Seq(Symbols) /\ \A i \in 1..Len(Boundary) : Boundary[i] \notin {"r", "l"}
  BY FramerAssumption, Symbolic
<1>4. Open = dashes \o Boundary
  BY DEF Open
<1>5. Delimiter = CRLF \o Open
  BY DEF Delimiter
<1>6. Close = Delimiter \o dashes
  <2>1. Close = CRLF \o Open \o dashes
    BY DEF Close
  <2> QED BY <2>1, <1>5
<1> HIDE DEF dashes
<1>7. /\ Open \in Seq(Symbols) /\ Len(Open) = 2 + Len(Boundary)
      /\ \A i \in 1..2 : Open[i] = dashes[i]
      /\ \A i \in 1..Len(Boundary) : Open[2 + i] = Boundary[i]
  BY <1>2, <1>3, <1>4, Joined
<1>8. \A i \in 1..Len(Open) : Open[i] \notin {"r", "l"}
  <2> SUFFICES ASSUME NEW i \in 1..Len(Open) PROVE Open[i] \notin {"r", "l"}
    OBVIOUS
  <2>1. CASE i \in 1..2
    BY <2>1, <1>7, <1>2
  <2>2. CASE i \notin 1..2
    <3>1. i - 2 \in 1..Len(Boundary) /\ i = 2 + (i - 2)
      BY <2>2, <1>7, <1>3
    <3>2. Open[i] = Boundary[i - 2]
      BY <3>1, <1>7
    <3> QED BY <3>1, <3>2, <1>3
  <2> QED BY <2>1, <2>2
<1>9. /\ Delimiter \in Seq(Symbols) /\ Len(Delimiter) = 2 + Len(Open)
      /\ \A i \in 1..2 : Delimiter[i] = CRLF[i]
      /\ \A i \in 1..Len(Open) : Delimiter[2 + i] = Open[i]
  <2>1. CRLF \in Seq(Symbols) /\ Open \in Seq(Symbols)
    BY <1>1, <1>7
  <2>2. /\ Delimiter \in Seq(Symbols) /\ Len(Delimiter) = Len(CRLF) + Len(Open)
        /\ \A i \in 1..Len(CRLF) : Delimiter[i] = CRLF[i]
        /\ \A i \in 1..Len(Open) : Delimiter[Len(CRLF) + i] = Open[i]
    BY <2>1, <1>5
  <2> QED BY <1>1, <2>2
<1>10. /\ Close \in Seq(Symbols) /\ Len(Close) = Len(Delimiter) + 2
       /\ \A i \in 1..Len(Delimiter) : Close[i] = Delimiter[i]
       /\ \A i \in 1..2 : Close[Len(Delimiter) + i] = dashes[i]
  <2>1. Delimiter \in Seq(Symbols) /\ dashes \in Seq(Symbols)
    BY <1>9, <1>2
  <2>2. /\ Close \in Seq(Symbols) /\ Len(Close) = Len(Delimiter) + Len(dashes)
        /\ \A i \in 1..Len(Delimiter) : Close[i] = Delimiter[i]
        /\ \A i \in 1..Len(dashes) : Close[Len(Delimiter) + i] = dashes[i]
    BY <2>1, <1>6
  <2> QED BY <1>2, <2>2
<1> QED
  <2>1. Len(Open) \in Nat /\ Len(Boundary) \in Nat
    BY <1>7, <1>3
  <2>2. \A i \in 1..Len(Open) : i + 2 = 2 + i
    BY <2>1
  <2>3. Close[Len(Delimiter) + 1] = "-" /\ Close[Len(Delimiter) + 2] = "-"
    BY <1>10, <1>2
  <2>4. Len(Delimiter) + 1 = Len(Open) + 3 /\ Len(Delimiter) + 2 = Len(Open) + 4
    BY <2>1, <1>9
  <2>5. \A i \in 1..Len(Open) : Delimiter[i + 2] = Open[i]
    BY <2>2, <1>9
  <2> QED BY <1>1, <1>7, <1>8, <1>9, <1>10, <2>1, <2>3, <2>4, <2>5

(* The header lines written out: three symbols each.                       *)
LEMMA Headers ==
  ASSUME NEW lines \in Seq(Symbols)
  PROVE  /\ Header(lines) \in Seq(Symbols) /\ Len(Header(lines)) = 3 * Len(lines)
         /\ \A j \in 1..Len(lines) : /\ Header(lines)[3 * j - 2] = lines[j]
                                     /\ Header(lines)[3 * j - 1] = "r"
                                     /\ Header(lines)[3 * j] = "l"
<1> DEFINE symbol(i) == CASE i % 3 = 1 -> lines[i \div 3 + 1]
                          [] i % 3 = 2 -> "r"
                          [] OTHER -> "l"
<1>1. Header(lines) = [i \in 1..3 * Len(lines) |-> symbol(i)]
  BY DEF Header
<1>2. \A i \in 1..3 * Len(lines) : symbol(i) \in Symbols
  <2> SUFFICES ASSUME NEW i \in 1..3 * Len(lines) PROVE symbol(i) \in Symbols
    OBVIOUS
  <2>1. i % 3 = 1 => i \div 3 + 1 \in 1..Len(lines)
    OBVIOUS
  <2>2. i % 3 = 1 => lines[i \div 3 + 1] \in Symbols
    BY <2>1
  <2>3. {"r", "l"} \subseteq Symbols
    BY DEF Symbols
  <2> QED BY <2>2, <2>3
<1>3. ASSUME NEW j \in 1..Len(lines)
      PROVE  symbol(3 * j - 2) = lines[j] /\ symbol(3 * j - 1) = "r" /\ symbol(3 * j) = "l"
  <2>1. /\ (3 * j - 2) % 3 = 1 /\ (3 * j - 2) \div 3 + 1 = j
        /\ (3 * j - 1) % 3 = 2 /\ (3 * j) % 3 = 0
    OBVIOUS
  <2> QED BY <2>1
<1>4. \A j \in 1..Len(lines) : {3 * j - 2, 3 * j - 1, 3 * j} \subseteq 1..3 * Len(lines)
  OBVIOUS
<1>5. 3 * Len(lines) \in Nat
  OBVIOUS
<1> HIDE DEF symbol
<1>6. Header(lines) \in Seq(Symbols) /\ Len(Header(lines)) = 3 * Len(lines)
  BY <1>1, <1>2, <1>5
<1> QED BY <1>1, <1>3, <1>4, <1>6

----------------------------------------------------------------------------
(* A form written out, symbol by symbol: its header block, its data and    *)
(* what follows them, and that the delimiters are where they were put and  *)
(* nowhere else.                                                           *)

(* What a part's text is, with its header block and data.                  *)
HeadSize(lines) == Len(Open) + 4 + 3 * Len(lines)

PartText(t, lines, data) ==
  /\ \A i \in 1..Len(Open) : t[i] = Open[i]
  /\ t[Len(Open) + 1] = "r" /\ t[Len(Open) + 2] = "l"
  /\ \A j \in 1..Len(lines) : /\ t[Len(Open) + 3 * j] = lines[j]
                              /\ t[Len(Open) + 3 * j + 1] = "r"
                              /\ t[Len(Open) + 3 * j + 2] = "l"
  /\ t[HeadSize(lines) - 1] = "r" /\ t[HeadSize(lines)] = "l"
  /\ \A i \in 1..Len(data) : t[HeadSize(lines) + i] = data[i]

(* A part written out: delimiter, header block, data, each where it is.    *)
LEMMA Parts ==
  ASSUME NEW lines \in Seq(Symbols), NEW data \in Seq(Symbols)
  PROVE  /\ Part(lines, data) \in Seq(Symbols)
         /\ Len(Part(lines, data)) = HeadSize(lines) + Len(data)
         /\ PartText(Part(lines, data), lines, data)
<1> DEFINE n == Len(Open)
           m == Len(lines)
<1>0. n \in Nat /\ m \in Nat /\ Len(CRLF) = 2 /\ CRLF[1] = "r" /\ CRLF[2] = "l"
  BY Marks
<1>1. PICK a : a = Open \o CRLF
  OBVIOUS
<1>2. PICK b : b = a \o Header(lines)
  OBVIOUS
<1>3. PICK c : c = b \o CRLF
  OBVIOUS
<1>4. PICK d : d = c \o data
  OBVIOUS
<1>5. d = Part(lines, data)
  BY <1>1, <1>2, <1>3, <1>4 DEF Part
<1>6. /\ a \in Seq(Symbols) /\ Len(a) = n + Len(CRLF)
      /\ \A i \in 1..n : a[i] = Open[i]
      /\ \A i \in 1..Len(CRLF) : a[n + i] = CRLF[i]
  <2>1. Open \in Seq(Symbols) /\ CRLF \in Seq(Symbols)
    BY Marks
  <2> QED BY <1>1, <2>1
<1>7. /\ b \in Seq(Symbols) /\ Len(b) = Len(a) + Len(Header(lines))
      /\ \A i \in 1..Len(a) : b[i] = a[i]
      /\ \A i \in 1..Len(Header(lines)) : b[Len(a) + i] = Header(lines)[i]
  <2>1. a \in Seq(Symbols) /\ Header(lines) \in Seq(Symbols)
    BY <1>6, Headers
  <2> QED BY <1>2, <2>1
<1>8. /\ c \in Seq(Symbols) /\ Len(c) = Len(b) + Len(CRLF)
      /\ \A i \in 1..Len(b) : c[i] = b[i]
      /\ \A i \in 1..Len(CRLF) : c[Len(b) + i] = CRLF[i]
  <2>1. b \in Seq(Symbols) /\ CRLF \in Seq(Symbols)
    BY <1>7, Marks
  <2> QED BY <1>3, <2>1
<1>9. /\ d \in Seq(Symbols) /\ Len(d) = Len(c) + Len(data)
      /\ \A i \in 1..Len(c) : d[i] = c[i]
      /\ \A i \in 1..Len(data) : d[Len(c) + i] = data[i]
  <2>1. c \in Seq(Symbols) /\ data \in Seq(Symbols)
    BY <1>8
  <2> QED BY <1>4, <2>1
<1>10. Len(a) = n + 2 /\ Len(b) = n + 2 + 3 * m /\ Len(c) = n + 4 + 3 * m
  <2>1. Len(Header(lines)) = 3 * m
    BY Headers
  <2>2. Len(a) = n + Len(CRLF) /\ Len(b) = Len(a) + Len(Header(lines)) /\ Len(c) = Len(b) + Len(CRLF)
    BY <1>6, <1>7, <1>8
  <2> QED BY <2>1, <2>2, <1>0
<1>11. \A i \in 1..Len(a) : d[i] = a[i]
  BY <1>7, <1>8, <1>9, <1>10, <1>0
<1>12. \A i \in 1..3 * m : d[n + 2 + i] = Header(lines)[i]
  <2> SUFFICES ASSUME NEW i \in 1..3 * m PROVE d[n + 2 + i] = Header(lines)[i]
    OBVIOUS
  <2>1. n + 2 + i \in 1..Len(b) /\ n + 2 + i \in 1..Len(c) /\ i \in 1..Len(Header(lines))
    <3>1. Len(Header(lines)) = 3 * m
      BY Headers
    <3> QED BY <3>1, <1>0, <1>10
  <2>2. d[n + 2 + i] = b[n + 2 + i]
    BY <2>1, <1>8, <1>9
  <2>3. b[Len(a) + i] = Header(lines)[i]
    BY <2>1, <1>7
  <2> QED BY <2>2, <2>3, <1>10
<1>13. d[n + 3 + 3 * m] = "r" /\ d[n + 4 + 3 * m] = "l"
  <2>1. c[Len(b) + 1] = "r" /\ c[Len(b) + 2] = "l"
    BY <1>0, <1>8
  <2>2. Len(b) + 1 = n + 3 + 3 * m /\ Len(b) + 2 = n + 4 + 3 * m
        /\ {Len(b) + 1, Len(b) + 2} \subseteq 1..Len(c)
    BY <1>0, <1>10
  <2> QED BY <2>1, <2>2, <1>9
<1>14. d[n + 1] = "r" /\ d[n + 2] = "l" /\ \A i \in 1..n : d[i] = Open[i]
  <2>1. a[n + 1] = "r" /\ a[n + 2] = "l"
    BY <1>0, <1>6
  <2>2. {n + 1, n + 2} \subseteq 1..Len(a) /\ 1..n \subseteq 1..Len(a)
    BY <1>0, <1>10
  <2> QED BY <2>1, <2>2, <1>6, <1>11
<1>15. ASSUME NEW j \in 1..m
       PROVE  d[n + 3 * j] = lines[j] /\ d[n + 3 * j + 1] = "r" /\ d[n + 3 * j + 2] = "l"
  <2>1. {3 * j - 2, 3 * j - 1, 3 * j} \subseteq 1..3 * m
    BY <1>0
  <2>2. n + 3 * j = n + 2 + (3 * j - 2) /\ n + 3 * j + 1 = n + 2 + (3 * j - 1)
        /\ n + 3 * j + 2 = n + 2 + 3 * j
    BY <1>0
  <2>3. Header(lines)[3 * j - 2] = lines[j] /\ Header(lines)[3 * j - 1] = "r"
        /\ Header(lines)[3 * j] = "l"
    BY Headers
  <2> QED BY <1>12, <2>1, <2>2, <2>3
<1>16. HeadSize(lines) = n + 4 + 3 * m /\ HeadSize(lines) = Len(c) /\ HeadSize(lines) - 1 = n + 3 + 3 * m
  BY <1>10, <1>0 DEF HeadSize
<1> QED
  <2> HIDE DEF n, m
  <2>1. d \in Seq(Symbols) /\ Len(d) = HeadSize(lines) + Len(data) /\ PartText(d, lines, data)
    <3>1. d \in Seq(Symbols) /\ Len(d) = HeadSize(lines) + Len(data)
      BY <1>9, <1>16
    <3>2. d[HeadSize(lines) - 1] = "r" /\ d[HeadSize(lines)] = "l"
      BY <1>13, <1>16
    <3>3. \A i \in 1..Len(data) : d[HeadSize(lines) + i] = data[i]
      BY <1>9, <1>16
    <3> USE DEF n, m
    <3> QED BY <1>14, <1>15, <3>1, <3>2, <3>3 DEF PartText
  <2> QED BY <2>1, <1>5

(* Where the data of a form ends.                                          *)
DataEnd(f) == HeadSize(f.lines) + Len(f.data)

(* The text of a form after its data: the close delimiter, another part,   *)
(* or nothing.                                                             *)
ClosedText(c, e) ==
  /\ Len(c) = e + Len(Open) + 6
  /\ c[e + Len(Open) + 3] = "-" /\ c[e + Len(Open) + 4] = "-"
  /\ c[e + Len(Open) + 5] = "r" /\ c[e + Len(Open) + 6] = "l"

AnotherText(c, e, line) ==
  /\ Len(c) = e + 2 * Len(Open) + 16
  /\ c[e + Len(Open) + 3] = "r" /\ c[e + Len(Open) + 4] = "l" /\ c[e + Len(Open) + 5] = line
  /\ c[e + Len(Open) + 6] = "r" /\ c[e + Len(Open) + 7] = "l"
  /\ c[e + Len(Open) + 8] = "r" /\ c[e + Len(Open) + 9] = "l"
  /\ c[e + Len(Open) + 10] = "x"
  /\ \A i \in 1..Len(Close) : c[e + Len(Open) + 10 + i] = Close[i]
  /\ c[e + 2 * Len(Open) + 15] = "r" /\ c[e + 2 * Len(Open) + 16] = "l"

FormText(c, f) ==
  /\ c \in Seq(Symbols)
  /\ PartText(c, f.lines, f.data)
  /\ f.then = "cut" => Len(c) = DataEnd(f)
  /\ f.then # "cut" => Len(c) > DataEnd(f) + Len(Open) + 5
                       /\ \A i \in 1..Len(Delimiter) : c[DataEnd(f) + i] = Delimiter[i]
  /\ f.then = "close" => ClosedText(c, DataEnd(f))
  /\ f.then = "second" => AnotherText(c, DataEnd(f), "D")
  /\ f.then = "other" => AnotherText(c, DataEnd(f), "O")

(* What follows a text leaves it as it is.                                 *)
LEMMA PartKept ==
  ASSUME NEW p \in Seq(Symbols), NEW t, NEW lines \in Seq(Symbols), NEW data \in Seq(Symbols),
         Len(p) = HeadSize(lines) + Len(data), PartText(p, lines, data),
         \A i \in 1..Len(p) : t[i] = p[i]
  PROVE  PartText(t, lines, data)
<1> DEFINE n == Len(Open)
           m == Len(lines)
           h == HeadSize(lines)
<1>1. n \in Nat /\ m \in Nat /\ h = n + 4 + 3 * m /\ Len(data) \in Nat /\ Len(p) = h + Len(data)
  BY Marks DEF HeadSize
<1>2. /\ 1..n \subseteq 1..Len(p) /\ {n + 1, n + 2, h - 1, h} \subseteq 1..Len(p)
  BY <1>1
<1>3. \A j \in 1..m : {n + 3 * j, n + 3 * j + 1, n + 3 * j + 2} \subseteq 1..Len(p)
  BY <1>1
<1>4. \A i \in 1..Len(data) : h + i \in 1..Len(p)
  BY <1>1
<1>5. (\A i \in 1..n : t[i] = Open[i]) /\ t[n + 1] = "r" /\ t[n + 2] = "l"
      /\ t[h - 1] = "r" /\ t[h] = "l"
  BY <1>2 DEF PartText
<1>6. ASSUME NEW j \in 1..m
      PROVE  t[n + 3 * j] = lines[j] /\ t[n + 3 * j + 1] = "r" /\ t[n + 3 * j + 2] = "l"
  BY <1>3 DEF PartText
<1>7. \A i \in 1..Len(data) : t[h + i] = data[i]
  BY <1>4 DEF PartText
<1> QED BY <1>5, <1>6, <1>7 DEF PartText

(* Another part, from its delimiter to the end.                            *)
AnotherPart(r, line) ==
  /\ r \in Seq(Symbols) /\ Len(r) = 2 * Len(Open) + 16
  /\ \A i \in 1..Len(Delimiter) : r[i] = Delimiter[i]
  /\ r[Len(Open) + 3] = "r" /\ r[Len(Open) + 4] = "l" /\ r[Len(Open) + 5] = line
  /\ r[Len(Open) + 6] = "r" /\ r[Len(Open) + 7] = "l"
  /\ r[Len(Open) + 8] = "r" /\ r[Len(Open) + 9] = "l"
  /\ r[Len(Open) + 10] = "x"
  /\ \A i \in 1..Len(Close) : r[Len(Open) + 10 + i] = Close[i]
  /\ r[2 * Len(Open) + 15] = "r" /\ r[2 * Len(Open) + 16] = "l"

(* The part that follows a file part, written out.                         *)
LEMMA Another ==
  ASSUME NEW line \in {"D", "O"}
  PROVE  AnotherPart(CRLF \o Part(<<line>>, <<"x">>) \o Close \o CRLF, line)
<1> DEFINE n == Len(Open)
<1>1. PICK lines : lines = <<line>>
  OBVIOUS
<1>2. PICK data : data = <<"x">>
  OBVIOUS
<1>3. Len(lines) = 1 /\ lines[1] = line /\ lines \in Seq(Symbols) /\ data \in Seq(Symbols)
      /\ Len(data) = 1 /\ data[1] = "x"
  BY <1>1, <1>2 DEF Symbols
<1>4. PICK p : p = Part(lines, data)
  OBVIOUS
<1>5. p \in Seq(Symbols) /\ Len(p) = HeadSize(lines) + Len(data) /\ PartText(p, lines, data)
  BY <1>3, <1>4, Parts
<1>6. PICK a : a = CRLF \o p
  OBVIOUS
<1>7. PICK b : b = a \o Close
  OBVIOUS
<1>8. PICK r : r = b \o CRLF
  OBVIOUS
<1>9. r = CRLF \o Part(<<line>>, <<"x">>) \o Close \o CRLF
  BY <1>1, <1>2, <1>4, <1>6, <1>7, <1>8
<1>10. /\ a \in Seq(Symbols) /\ Len(a) = Len(CRLF) + Len(p)
       /\ \A i \in 1..Len(CRLF) : a[i] = CRLF[i]
       /\ \A i \in 1..Len(p) : a[Len(CRLF) + i] = p[i]
  <2>1. p \in Seq(Symbols) /\ CRLF \in Seq(Symbols)
    BY Marks, <1>5
  <2> QED BY <1>6, <2>1
<1>11. /\ b \in Seq(Symbols) /\ Len(b) = Len(a) + Len(Close)
       /\ \A i \in 1..Len(a) : b[i] = a[i]
       /\ \A i \in 1..Len(Close) : b[Len(a) + i] = Close[i]
  <2>1. a \in Seq(Symbols) /\ Close \in Seq(Symbols)
    BY Marks, <1>10
  <2> QED BY <1>7, <2>1
<1>12. /\ r \in Seq(Symbols) /\ Len(r) = Len(b) + Len(CRLF)
       /\ \A i \in 1..Len(b) : r[i] = b[i]
       /\ \A i \in 1..Len(CRLF) : r[Len(b) + i] = CRLF[i]
  <2>1. b \in Seq(Symbols) /\ CRLF \in Seq(Symbols)
    BY Marks, <1>11
  <2> QED BY <1>8, <2>1
<1>13. /\ n \in Nat /\ Len(CRLF) = 2 /\ CRLF[1] = "r" /\ CRLF[2] = "l" /\ Len(Close) = n + 4
       /\ Len(Delimiter) = n + 2 /\ Delimiter[1] = "r" /\ Delimiter[2] = "l"
       /\ \A i \in 1..n : Delimiter[i + 2] = Open[i]
  BY Marks
<1>14. Len(p) = n + 8 /\ Len(a) = n + 10 /\ Len(b) = 2 * n + 14 /\ Len(r) = 2 * n + 16
       /\ HeadSize(lines) = n + 7
  <2>1. Len(p) = n + 8 /\ HeadSize(lines) = n + 7
    BY <1>3, <1>5, <1>13 DEF HeadSize
  <2>2. Len(a) = Len(CRLF) + Len(p) /\ Len(b) = Len(a) + Len(Close) /\ Len(r) = Len(b) + Len(CRLF)
    BY <1>10, <1>11, <1>12
  <2> QED BY <2>1, <2>2, <1>13
<1>15. \A i \in 1..(n + 10) : r[i] = a[i]
  BY <1>11, <1>12, <1>13, <1>14
<1>16. \A i \in 1..(n + 8) : r[i + 2] = p[i]
  <2> SUFFICES ASSUME NEW i \in 1..(n + 8) PROVE r[i + 2] = p[i]
    OBVIOUS
  <2>1. i + 2 \in 1..(n + 10) /\ i + 2 = 2 + i /\ i \in 1..Len(p)
    BY <1>14, <1>13
  <2>2. a[2 + i] = p[i]
    BY <2>1, <1>10, <1>13
  <2> QED BY <2>1, <2>2, <1>15
<1>17. r[1] = "r" /\ r[2] = "l"
  <2>1. 1 \in 1..(n + 10) /\ 2 \in 1..(n + 10) /\ 1 \in 1..2 /\ 2 \in 1..2
    BY <1>13
  <2>2. a[1] = CRLF[1] /\ a[2] = CRLF[2]
    BY <2>1, <1>10, <1>13
  <2> QED BY <2>1, <2>2, <1>15, <1>13
<1>18. \A i \in 1..Len(Close) : r[n + 10 + i] = Close[i]
  <2> SUFFICES ASSUME NEW i \in 1..Len(Close) PROVE r[n + 10 + i] = Close[i]
    OBVIOUS
  <2>1. n + 10 + i \in 1..(2 * n + 14)
    BY <1>13
  <2>2. b[n + 10 + i] = Close[i]
    BY <1>11, <1>14
  <2> QED BY <2>1, <2>2, <1>12, <1>14
<1>19. r[2 * n + 15] = "r" /\ r[2 * n + 16] = "l"
  <2>1. r[Len(b) + 1] = CRLF[1] /\ r[Len(b) + 2] = CRLF[2]
    BY <1>12, <1>13
  <2>2. Len(b) + 1 = 2 * n + 15 /\ Len(b) + 2 = 2 * n + 16
    BY <1>14, <1>13
  <2> QED BY <2>1, <2>2, <1>13
<1>20. /\ p[n + 1] = "r" /\ p[n + 2] = "l" /\ p[n + 3] = line /\ p[n + 4] = "r" /\ p[n + 5] = "l"
       /\ p[n + 6] = "r" /\ p[n + 7] = "l" /\ p[n + 8] = "x"
       /\ \A i \in 1..n : p[i] = Open[i]
  <2>1. 1 \in 1..Len(lines) /\ 1 \in 1..Len(data) /\ n + 3 * 1 = n + 3
        /\ n + 3 * 1 + 1 = n + 4 /\ n + 3 * 1 + 2 = n + 5
        /\ HeadSize(lines) - 1 = n + 6 /\ HeadSize(lines) + 1 = n + 8
    BY <1>3, <1>13, <1>14
  <2>2. p[n + 3 * 1] = lines[1] /\ p[n + 3 * 1 + 1] = "r" /\ p[n + 3 * 1 + 2] = "l"
        /\ p[HeadSize(lines) + 1] = data[1]
    BY <2>1, <1>5 DEF PartText
  <2>3. p[n + 1] = "r" /\ p[n + 2] = "l" /\ (\A i \in 1..n : p[i] = Open[i])
        /\ p[HeadSize(lines) - 1] = "r" /\ p[HeadSize(lines)] = "l"
    BY <1>5 DEF PartText
  <2> QED BY <2>1, <2>2, <2>3, <1>3, <1>14
<1>21. \A i \in 1..Len(Delimiter) : r[i] = Delimiter[i]
  <2> SUFFICES ASSUME NEW i \in 1..Len(Delimiter) PROVE r[i] = Delimiter[i]
    OBVIOUS
  <2>1. CASE i \in {1, 2}
    BY <2>1, <1>13, <1>17
  <2>2. CASE i > 2
    <3>1. i - 2 \in 1..n /\ i - 2 \in 1..(n + 8) /\ (i - 2) + 2 = i
      BY <2>2, <1>13
    <3>2. r[(i - 2) + 2] = p[i - 2] /\ p[i - 2] = Open[i - 2] /\ Delimiter[(i - 2) + 2] = Open[i - 2]
      BY <3>1, <1>13, <1>16, <1>20
    <3> QED BY <3>1, <3>2
  <2>3. i \in Nat /\ i >= 1
    BY <1>13
  <2> QED BY <2>1, <2>2, <2>3
<1>22. /\ r[n + 3] = "r" /\ r[n + 4] = "l" /\ r[n + 5] = line
       /\ r[n + 6] = "r" /\ r[n + 7] = "l" /\ r[n + 8] = "r" /\ r[n + 9] = "l"
       /\ r[n + 10] = "x"
  <2>1. {n + 1, n + 2, n + 3, n + 4, n + 5, n + 6, n + 7, n + 8} \subseteq 1..(n + 8)
    BY <1>13
  <2>2. /\ (n + 1) + 2 = n + 3 /\ (n + 2) + 2 = n + 4 /\ (n + 3) + 2 = n + 5 /\ (n + 4) + 2 = n + 6
        /\ (n + 5) + 2 = n + 7 /\ (n + 6) + 2 = n + 8 /\ (n + 7) + 2 = n + 9 /\ (n + 8) + 2 = n + 10
    BY <1>13
  <2>3. /\ r[(n + 1) + 2] = p[n + 1] /\ r[(n + 2) + 2] = p[n + 2]
        /\ r[(n + 3) + 2] = p[n + 3] /\ r[(n + 4) + 2] = p[n + 4]
        /\ r[(n + 5) + 2] = p[n + 5] /\ r[(n + 6) + 2] = p[n + 6]
        /\ r[(n + 7) + 2] = p[n + 7] /\ r[(n + 8) + 2] = p[n + 8]
    BY <2>1, <1>16
  <2> QED BY <2>2, <2>3, <1>20
<1>23. AnotherPart(r, line)
  BY <1>12, <1>14, <1>18, <1>19, <1>21, <1>22 DEF AnotherPart
<1> QED BY <1>9, <1>23

(* The text of a form, symbol by symbol.                                   *)
LEMMA Follows ==
  ASSUME NEW r, NEW line, AnotherPart(r, line), NEW c, NEW e \in Nat,
         Len(c) = e + Len(r), \A i \in 1..Len(r) : c[e + i] = r[i]
  PROVE  AnotherText(c, e, line)
<1> DEFINE n == Len(Open)
<1>1. n \in Nat /\ Len(Close) = n + 4 /\ Len(Delimiter) = n + 2 /\ Len(r) = 2 * n + 16
  BY Marks DEF AnotherPart
<1>2. \A k \in Nat : k >= 1 /\ k <= 10 => n + k \in 1..Len(r) /\ e + (n + k) = e + n + k
  BY <1>1
<1>3. \A k \in {3, 4, 5, 6, 7, 8, 9, 10} : c[e + n + k] = r[n + k]
  BY <1>2
<1>4. \A i \in 1..Len(Close) : c[e + n + 10 + i] = Close[i]
  <2> SUFFICES ASSUME NEW i \in 1..Len(Close) PROVE c[e + n + 10 + i] = Close[i]
    OBVIOUS
  <2>1. n + 10 + i \in 1..Len(r) /\ e + (n + 10 + i) = e + n + 10 + i
    BY <1>1
  <2>2. r[n + 10 + i] = Close[i]
    BY DEF AnotherPart
  <2> QED BY <2>1, <2>2
<1>5. c[e + 2 * n + 15] = "r" /\ c[e + 2 * n + 16] = "l"
  <2>1. {2 * n + 15, 2 * n + 16} \subseteq 1..Len(r)
        /\ e + (2 * n + 15) = e + 2 * n + 15 /\ e + (2 * n + 16) = e + 2 * n + 16
    BY <1>1
  <2> QED BY <2>1 DEF AnotherPart
<1>7. Len(c) = e + 2 * n + 16
  BY <1>1
<1> QED BY <1>3, <1>4, <1>5, <1>7 DEF AnotherText, AnotherPart

(* What a form is for the proofs.                                          *)
LEMMA Composed ==
  ASSUME NEW f, WellComposed(f)
  PROVE  /\ f.lines \in Seq(Symbols) /\ Len(f.lines) \in Nat /\ Len(f.lines) >= 1
         /\ f.data \in Seq(Symbols) /\ Len(f.data) \in Nat
         /\ f.pre \in Seq(Symbols) /\ f.epilogue \in Seq(Symbols)
         /\ f.then \in {"close", "second", "other", "cut"}
         /\ f.lines[1] \in Dispositions
         /\ \A i \in 2..Len(f.lines) : f.lines[i] \in TypeLines \cup {"A", "w", "H"}
         /\ \A i \in 1..Len(f.lines) : f.lines[i] \notin {"r", "l", "-"}
<1>1. {f.pre, f.data, f.epilogue} \subseteq Seq(STRING) /\ f.lines \in Seq(STRING) /\ f.lines # <<>>
  BY DEF WellComposed
<1>2. f.lines \in Seq(Symbols) /\ f.data \in Seq(Symbols) /\ f.pre \in Seq(Symbols)
      /\ f.epilogue \in Seq(Symbols)
  BY <1>1, Symbolic
<1>3. Len(f.lines) \in Nat /\ Len(f.lines) >= 1 /\ Len(f.data) \in Nat
  BY <1>1
<1>4. f.lines[1] \in Dispositions /\ f.then \in {"close", "second", "other", "cut"}
      /\ \A i \in 2..Len(f.lines) : f.lines[i] \in TypeLines \cup {"A", "w", "H"}
  BY DEF WellComposed
<1>5. \A i \in 1..Len(f.lines) : f.lines[i] \notin {"r", "l", "-"}
  <2> SUFFICES ASSUME NEW i \in 1..Len(f.lines) PROVE f.lines[i] \notin {"r", "l", "-"}
    OBVIOUS
  <2>1. i = 1 \/ i \in 2..Len(f.lines)
    OBVIOUS
  <2> QED BY <2>1, <1>4 DEF Dispositions, TypeLines
<1> QED BY <1>2, <1>3, <1>4, <1>5

(* What a form's text is, symbol by symbol.                                *)
LEMMA Text ==
  ASSUME NEW f, WellComposed(f)
  PROVE  FormText(Canonical(f), f)
<1> DEFINE e == DataEnd(f)
           n == Len(Open)
<1>1. PICK p : p = Part(f.lines, f.data)
  OBVIOUS
<1>2. p \in Seq(Symbols) /\ Len(p) = e /\ PartText(p, f.lines, f.data)
  BY <1>1, Composed, Parts DEF DataEnd
<1>3. e \in Nat /\ n \in Nat /\ Len(Close) = n + 4 /\ Len(Delimiter) = n + 2
  BY <1>2, Marks
<1> DEFINE Follow(r) == p \o r
<1>4. ASSUME NEW r \in Seq(Symbols), Canonical(f) = p \o r
      PROVE  /\ Canonical(f) \in Seq(Symbols) /\ Len(Canonical(f)) = e + Len(r)
             /\ PartText(Canonical(f), f.lines, f.data)
             /\ \A i \in 1..Len(r) : Canonical(f)[e + i] = r[i]
  <2>1. PICK c : c = p \o r
    OBVIOUS
  <2>2. /\ c \in Seq(Symbols) /\ Len(c) = Len(p) + Len(r)
        /\ \A i \in 1..Len(p) : c[i] = p[i]
        /\ \A i \in 1..Len(r) : c[Len(p) + i] = r[i]
    <3>1. p \in Seq(Symbols) /\ r \in Seq(Symbols)
      BY <1>2
    <3> QED BY <3>1, <2>1
  <2>3. PartText(c, f.lines, f.data)
    <3>1. Len(p) = HeadSize(f.lines) + Len(f.data) /\ p \in Seq(Symbols)
          /\ f.lines \in Seq(Symbols) /\ f.data \in Seq(Symbols)
      BY <1>2, Composed DEF DataEnd
    <3>2. \A i \in 1..Len(p) : c[i] = p[i]
      BY <2>2
    <3> QED BY <3>1, <3>2, <1>2, PartKept
  <2> QED BY <2>1, <2>2, <2>3, <1>2, <1>4
<1>5. CASE f.then = "cut"
  <2>1. PICK r : r = <<>>
    OBVIOUS
  <2>2. r \in Seq(Symbols) /\ Len(r) = 0
    BY <2>1
  <2>3. Canonical(f) = p \o r
    BY <1>5, <1>1, <2>1 DEF Canonical
  <2>4. Canonical(f) \in Seq(Symbols) /\ Len(Canonical(f)) = e + Len(r)
        /\ PartText(Canonical(f), f.lines, f.data)
    BY <1>4, <2>2, <2>3
  <2> QED BY <2>2, <2>4, <1>5, <1>3 DEF FormText
<1>6. CASE f.then = "close"
  <2>1. PICK r : r = Close \o CRLF
    OBVIOUS
  <2>2. /\ r \in Seq(Symbols) /\ Len(r) = Len(Close) + Len(CRLF)
        /\ \A i \in 1..Len(Close) : r[i] = Close[i]
        /\ \A i \in 1..Len(CRLF) : r[Len(Close) + i] = CRLF[i]
    <3>1. Close \in Seq(Symbols) /\ CRLF \in Seq(Symbols)
      BY Marks
    <3> QED BY <3>1, <2>1
  <2>3. Canonical(f) = p \o r
    BY <1>6, <1>1, <2>1 DEF Canonical
  <2>4. /\ Canonical(f) \in Seq(Symbols) /\ Len(Canonical(f)) = e + Len(r)
        /\ PartText(Canonical(f), f.lines, f.data)
        /\ \A i \in 1..Len(r) : Canonical(f)[e + i] = r[i]
    BY <1>4, <2>2, <2>3
  <2>5. Len(r) = n + 6 /\ r[n + 3] = "-" /\ r[n + 4] = "-" /\ r[n + 5] = "r" /\ r[n + 6] = "l"
    <3>1. Len(CRLF) = 2 /\ CRLF[1] = "r" /\ CRLF[2] = "l" /\ Close[n + 3] = "-" /\ Close[n + 4] = "-"
      BY Marks
    <3>2. r[n + 3] = Close[n + 3] /\ r[n + 4] = Close[n + 4] /\ Len(r) = n + 6
      BY <2>2, <1>3, <3>1
    <3>3. r[Len(Close) + 1] = CRLF[1] /\ r[Len(Close) + 2] = CRLF[2]
      BY <2>2, <3>1
    <3>4. Len(Close) + 1 = n + 5 /\ Len(Close) + 2 = n + 6
      BY <1>3
    <3> QED BY <3>1, <3>2, <3>3, <3>4
  <2>6. ClosedText(Canonical(f), e)
    <3>1. {n + 3, n + 4, n + 5, n + 6} \subseteq 1..Len(r)
          /\ e + (n + 3) = e + n + 3 /\ e + (n + 4) = e + n + 4 /\ e + (n + 5) = e + n + 5
          /\ e + (n + 6) = e + n + 6
      BY <2>5, <1>3
    <3>2. /\ Canonical(f)[e + (n + 3)] = r[n + 3] /\ Canonical(f)[e + (n + 4)] = r[n + 4]
          /\ Canonical(f)[e + (n + 5)] = r[n + 5] /\ Canonical(f)[e + (n + 6)] = r[n + 6]
      BY <2>4, <3>1
    <3> QED BY <3>1, <3>2, <2>4, <2>5, <1>3 DEF ClosedText
  <2>7. \A i \in 1..Len(Delimiter) : Canonical(f)[e + i] = Delimiter[i]
    <3> SUFFICES ASSUME NEW i \in 1..Len(Delimiter) PROVE Canonical(f)[e + i] = Delimiter[i]
      OBVIOUS
    <3>1. i \in 1..Len(Close) /\ i \in 1..Len(r)
      BY <1>3, <2>5
    <3>2. Close[i] = Delimiter[i]
      BY Marks
    <3> QED BY <3>1, <3>2, <2>2, <2>4
  <2>8. Len(Canonical(f)) > e + n + 5
    BY <2>4, <2>5, <1>3
  <2> QED BY <2>4, <2>6, <2>7, <2>8, <1>6 DEF FormText
<1>7. CASE f.then \in {"second", "other"}
  <2>1. PICK line : line = IF f.then = "second" THEN "D" ELSE "O"
    OBVIOUS
  <2>2. PICK r : r = CRLF \o Part(<<line>>, <<"x">>) \o Close \o CRLF
    OBVIOUS
  <2>3. AnotherPart(r, line)
    BY <2>1, <2>2, Another
  <2>4. Canonical(f) = p \o r
    BY <1>7, <1>1, <2>1, <2>2 DEF Canonical
  <2>5. r \in Seq(Symbols) /\ Len(r) = 2 * n + 16
    BY <2>3 DEF AnotherPart
  <2>6. /\ Canonical(f) \in Seq(Symbols) /\ Len(Canonical(f)) = e + Len(r)
        /\ PartText(Canonical(f), f.lines, f.data)
        /\ \A i \in 1..Len(r) : Canonical(f)[e + i] = r[i]
    BY <1>4, <2>4, <2>5
  <2>7. AnotherText(Canonical(f), e, line) /\ \A i \in 1..Len(Delimiter) : Canonical(f)[e + i] = Delimiter[i]
    <3>1. PICK c, d : c = Canonical(f) /\ d = e
      OBVIOUS
    <3>2. d \in Nat /\ Len(c) = d + Len(r) /\ \A i \in 1..Len(r) : c[d + i] = r[i]
      BY <3>1, <2>6, <1>3
    <3>3. AnotherText(c, d, line)
      BY <3>2, <2>3, Follows
    <3>4. \A i \in 1..Len(Delimiter) : i \in 1..Len(r) /\ r[i] = Delimiter[i]
      BY <2>3, <2>5, <1>3 DEF AnotherPart
    <3> QED BY <3>1, <3>2, <3>3, <3>4
  <2>8. Len(Canonical(f)) > e + n + 5
    BY <2>5, <2>6, <1>3
  <2> QED BY <2>1, <2>6, <2>7, <2>8, <1>7 DEF FormText
<1> QED BY <1>5, <1>6, <1>7, Composed

(* The greater and the lesser of two numbers.                              *)
LEMMA MaxOfTwo ==
  ASSUME NEW a \in Int, NEW b \in Int
  PROVE  Max({a, b}) = IF a >= b THEN a ELSE b
BY DEF Max

LEMMA MinOfTwo ==
  ASSUME NEW a \in Int, NEW b \in Int
  PROVE  Min({a, b}) = IF a <= b THEN a ELSE b
BY DEF Min

(* The last symbols of a text.                                             *)
LEMMA Lasts ==
  ASSUME NEW S, NEW s \in Seq(S), NEW n \in Nat
  PROVE  LastOf(s, n) = IF n >= Len(s) THEN s ELSE SubSeq(s, Len(s) - n + 1, Len(s))
<1>1. Max({1, Len(s) - n + 1}) = IF 1 >= Len(s) - n + 1 THEN 1 ELSE Len(s) - n + 1
  BY MaxOfTwo
<1>2. LastOf(s, n) = SubSeq(s, Max({1, Len(s) - n + 1}), Len(s))
  BY DEF LastOf
<1>3. SubSeq(s, 1, Len(s)) = s
  OBVIOUS
<1>4. PICK k : k = Len(s)
  OBVIOUS
<1>5. k \in Nat
  BY <1>4
<1>6. Max({1, k - n + 1}) = IF 1 >= k - n + 1 THEN 1 ELSE k - n + 1
  BY <1>1, <1>4
<1>7. (1 >= k - n + 1) <=> n >= k
  BY <1>5
<1> QED BY <1>2, <1>3, <1>4, <1>6, <1>7

(* No delimiter before the data is over, however the data looks.           *)
LEMMA NoDelimiterBefore ==
  ASSUME NEW f, WellComposed(f), NEW i, Occurs(Delimiter, Canonical(f), i)
  PROVE  i > DataEnd(f)
<1>1. PICK c, n, m, h, e, q, d :
        /\ c = Canonical(f) /\ n = Len(Open) /\ m = Len(f.lines) /\ h = HeadSize(f.lines)
        /\ e = DataEnd(f) /\ q = Len(Delimiter) /\ d = Len(f.data)
  OBVIOUS
<1>2. PICK k : k = Len(c)
  OBVIOUS
<1>3. FormText(c, f) /\ PartText(c, f.lines, f.data)
  BY <1>1, Text DEF FormText
<1>4. i \in Nat /\ i >= 1 /\ i + q - 1 <= k /\ \A j \in 1..q : c[i + j - 1] = Delimiter[j]
  BY <1>1, <1>2 DEF Occurs
<1>5. n \in Nat /\ n >= 2 /\ q = n + 2
  BY <1>1, Marks
<1>6. m \in Nat /\ m >= 1 /\ d \in Nat /\ k \in Nat
  <2>1. c \in Seq(Symbols)
    BY <1>3 DEF FormText
  <2> QED BY <1>1, <1>2, <2>1, Composed
<1>7. h = n + 4 + 3 * m /\ e = h + d
  BY <1>1 DEF HeadSize, DataEnd
<1>0. /\ n \in Nat /\ n >= 2 /\ m \in Nat /\ m >= 1 /\ d \in Nat /\ k \in Nat /\ q = n + 2
      /\ h = n + 4 + 3 * m /\ e = h + d /\ i \in Nat /\ i >= 1 /\ i + q - 1 <= k
  BY <1>4, <1>5, <1>6, <1>7
<1> SUFFICES ASSUME i <= e PROVE FALSE
  <2>1. e = DataEnd(f)
    BY <1>1
  <2>2. e \in Nat /\ i \in Nat
    BY <1>0
  <2> QED BY <2>1, <2>2
<1>8. c[i] = "r" /\ c[i + 2] = "-"
  <2>1. {1, 3} \subseteq 1..q /\ i + 1 - 1 = i /\ i + 3 - 1 = i + 2
    BY <1>0
  <2>2. Delimiter[1] = "r" /\ Delimiter[3] = "-"
    <3>1. 1 \in 1..Len(Open) /\ 1 + 2 = 3
      BY <1>0, <1>1
    <3>2. Open[1] = "-"
      BY DEF Open
    <3> QED BY Marks, <3>1, <3>2
  <2> QED BY <2>1, <2>2, <1>4
<1>9. /\ \A j \in 1..n : c[j] # "r"
      /\ c[n + 1] = "r" /\ c[n + 2] = "l" /\ c[h - 1] = "r" /\ c[h] = "l"
      /\ \A j \in 1..m : c[n + 3 * j] = f.lines[j] /\ c[n + 3 * j + 1] = "r" /\ c[n + 3 * j + 2] = "l"
      /\ \A j \in 1..d : c[h + j] = f.data[j]
  BY <1>1, <1>3, Marks DEF PartText
<1>10. \A j \in 1..m : c[n + 3 * j] \notin {"r", "-"}
  <2>1. \A j \in 1..m : f.lines[j] \notin {"r", "-"}
    BY <1>1, Composed
  <2> QED BY <2>1, <1>9
<1>11. i > n
  BY <1>0, <1>8, <1>9
<1>12. i # n + 1 /\ i # n + 2
  <2>1. 1 \in 1..m /\ n + 3 * 1 = (n + 1) + 2
    BY <1>0
  <2>2. c[(n + 1) + 2] # "-"
    BY <2>1, <1>10
  <2> QED BY <2>2, <1>8, <1>9
<1>13. i >= h - 1
  <2> SUFFICES ASSUME i < h - 1 PROVE FALSE
    BY <1>0
  <2>1. PICK t : t = i - n
    OBVIOUS
  <2>2. t \in Nat /\ t >= 3 /\ t <= 3 * m + 2 /\ i = n + t
    BY <2>1, <1>0, <1>11, <1>12
  <2>3. PICK j : j = t \div 3
    OBVIOUS
  <2>4. j \in Nat /\ t \in {3 * j, 3 * j + 1, 3 * j + 2} /\ j >= 1 /\ j <= m
    BY <2>2, <2>3, <1>0
  <2>5. j \in 1..m
    BY <2>4, <1>0
  <2>6. i = n + 3 * j + 1
    <3>1. i \in {n + 3 * j, n + 3 * j + 1, n + 3 * j + 2}
      BY <2>2, <2>4, <1>0
    <3> QED BY <3>1, <2>5, <1>8, <1>9, <1>10
  <2>7. CASE j < m
    <3>1. j + 1 \in 1..m /\ n + 3 * (j + 1) = i + 2
      BY <2>4, <2>6, <2>7, <1>0
    <3> QED BY <3>1, <1>8, <1>10
  <2>8. CASE j = m
    <3>1. i + 2 = h - 1
      BY <2>6, <2>8, <1>0
    <3> QED BY <3>1, <1>8, <1>9
  <2> QED BY <2>4, <2>7, <2>8, <1>0
<1>14. PICK a : a = CRLF \o f.data
  OBVIOUS
<1>15. PICK w : w = a \o Delimiter
  OBVIOUS
<1>16. /\ a \in Seq(Symbols) /\ Len(a) = Len(CRLF) + Len(f.data)
       /\ \A j \in 1..Len(CRLF) : a[j] = CRLF[j]
       /\ \A j \in 1..Len(f.data) : a[Len(CRLF) + j] = f.data[j]
  <2>1. CRLF \in Seq(Symbols) /\ f.data \in Seq(Symbols)
    BY Marks, Composed
  <2> QED BY <2>1, <1>14
<1>17. /\ w \in Seq(Symbols) /\ Len(w) = Len(a) + Len(Delimiter)
       /\ \A j \in 1..Len(a) : w[j] = a[j]
       /\ \A j \in 1..Len(Delimiter) : w[Len(a) + j] = Delimiter[j]
  <2>1. a \in Seq(Symbols) /\ Delimiter \in Seq(Symbols)
    BY Marks, <1>16
  <2> QED BY <2>1, <1>15
<1>18. Find(w, Delimiter) = d + 3
  BY <1>1, <1>14, <1>15 DEF WellComposed
<1>19. Len(CRLF) = 2 /\ CRLF[1] = "r" /\ CRLF[2] = "l"
  BY Marks
<1>20. Len(a) = d + 2 /\ Len(w) = d + 2 + q
  <2>1. Len(a) = Len(CRLF) + Len(f.data) /\ Len(w) = Len(a) + Len(Delimiter) /\ Len(CRLF) = 2
        /\ Len(f.data) = d /\ Len(Delimiter) = q
    BY <1>1, <1>16, <1>17, <1>19
  <2> QED BY <2>1, <1>0
<1>21. /\ \A j \in 1..2 : w[j] = CRLF[j]
       /\ \A j \in 1..d : w[2 + j] = f.data[j]
       /\ \A j \in 1..q : w[d + 2 + j] = Delimiter[j]
  <2>1. \A j \in 1..2 : j \in 1..Len(a)
    BY <1>0, <1>20
  <2>2. \A j \in 1..d : 2 + j \in 1..Len(a)
    BY <1>0, <1>20
  <2>3. \A j \in 1..2 : w[j] = CRLF[j]
    BY <2>1, <1>16, <1>17, <1>19
  <2>4. \A j \in 1..d : w[2 + j] = f.data[j]
    BY <2>2, <1>1, <1>16, <1>17, <1>19
  <2>5. \A j \in 1..q : w[d + 2 + j] = Delimiter[j]
    BY <1>1, <1>17, <1>20
  <2> QED BY <2>3, <2>4, <2>5
<1>22. ASSUME NEW j \in Nat, 1 <= j, j <= d + 2 + q, (h - 2) + j <= k PROVE w[j] = c[(h - 2) + j]
  <2>1. CASE j = 1
    <3>1. (h - 2) + j = h - 1 /\ j \in 1..2
      BY <2>1, <1>0
    <3> QED BY <2>1, <3>1, <1>9, <1>19, <1>21
  <2>2. CASE j = 2
    <3>1. (h - 2) + j = h /\ j \in 1..2
      BY <2>2, <1>0
    <3> QED BY <2>2, <3>1, <1>9, <1>19, <1>21
  <2>3. CASE 3 <= j /\ j <= d + 2
    <3>1. j - 2 \in 1..d /\ 2 + (j - 2) = j /\ h + (j - 2) = (h - 2) + j
      BY <2>3, <1>0
    <3> QED BY <3>1, <1>9, <1>21
  <2>4. CASE j > d + 2
    <3>1. j - (d + 2) \in 1..q /\ d + 2 + (j - (d + 2)) = j /\ e + (j - (d + 2)) = (h - 2) + j
      BY <2>4, <1>0, <1>22
    <3>2. e + (j - (d + 2)) > e /\ e + (j - (d + 2)) <= k
      BY <2>4, <1>0, <1>22
    <3>3. f.then # "cut"
      <4>1. f.then = "cut" => k = e
        BY <1>1, <1>2, <1>3 DEF FormText
      <4> QED BY <4>1, <3>2, <1>0
    <3>4. c[e + (j - (d + 2))] = Delimiter[j - (d + 2)]
      BY <3>1, <3>3, <1>1, <1>3 DEF FormText
    <3> QED BY <3>1, <3>4, <1>21
  <2>5. j = 1 \/ j = 2 \/ (3 <= j /\ j <= d + 2) \/ j > d + 2
    BY <1>0, <1>22
  <2> QED BY <2>1, <2>2, <2>3, <2>4, <2>5
<1>23. PICK x : x = i - (h - 2)
  OBVIOUS
<1>24. x \in Nat /\ x >= 1 /\ x <= d + 2 /\ i = (h - 2) + x
  BY <1>0, <1>13, <1>23
<1>25. Occurs(Delimiter, w, x)
  <2>1. x \in Nat \ {0} /\ x + q - 1 <= d + 2 + q
    BY <1>0, <1>24
  <2>2. ASSUME NEW j \in 1..q PROVE w[x + j - 1] = Delimiter[j]
    <3>1. /\ x + j - 1 \in Nat /\ 1 <= x + j - 1 /\ x + j - 1 <= d + 2 + q
          /\ (h - 2) + (x + j - 1) = i + j - 1 /\ i + j - 1 <= k
      BY <2>1, <1>24, <1>0
    <3>2. w[x + j - 1] = c[(h - 2) + (x + j - 1)]
      BY <3>1, <1>22
    <3> QED BY <3>1, <3>2, <1>4
  <2> QED BY <2>1, <2>2, <1>1, <1>20 DEF Occurs
<1>26. Find(w, Delimiter) <= x
  <2>1. w \in Seq(Symbols) /\ Delimiter \in Seq(Symbols)
    BY <1>17, Marks
  <2> QED BY <1>25, <2>1, Finds
<1> QED BY <1>18, <1>24, <1>26, <1>0

(* How far the header block and the data of a form reach.                  *)
LEMMA Sizes ==
  ASSUME NEW f, WellComposed(f)
  PROVE  /\ HeadSize(f.lines) \in Nat /\ HeadSize(f.lines) >= Len(Open) + 7
         /\ DataEnd(f) \in Nat /\ DataEnd(f) = HeadSize(f.lines) + Len(f.data)
<1>1. PICK n, m, d : n = Len(Open) /\ m = Len(f.lines) /\ d = Len(f.data)
  OBVIOUS
<1>2. n \in Nat /\ m \in Nat /\ m >= 1 /\ d \in Nat
  BY <1>1, Marks, Composed
<1>3. HeadSize(f.lines) = n + 4 + 3 * m /\ DataEnd(f) = HeadSize(f.lines) + d
  BY <1>1 DEF HeadSize, DataEnd
<1>4. n + 4 + 3 * m \in Nat /\ n + 4 + 3 * m >= n + 7 /\ n + 4 + 3 * m + d \in Nat
  BY <1>2
<1> QED BY <1>1, <1>3, <1>4

(* Where the body ends: its length but for the line end after the close.   *)
BodyEnd(f) == IF f.then = "cut" THEN Len(Canonical(f)) ELSE Len(Canonical(f)) - 2

(* The close delimiter is at the end of the body and nowhere before.       *)
LEMMA OnlyClose ==
  ASSUME NEW f, WellComposed(f)
  PROVE  /\ f.then # "cut" => Occurs(Close, Canonical(f), BodyEnd(f) - Len(Close) + 1)
         /\ \A i : Occurs(Close, Canonical(f), i) =>
              f.then # "cut" /\ i >= BodyEnd(f) - Len(Close) + 1
<1>1. PICK c, n, e, q, k :
        /\ c = Canonical(f) /\ n = Len(Open)
        /\ e = DataEnd(f) /\ q = Len(Close) /\ k = Len(c)
  OBVIOUS
<1>2. FormText(c, f)
  BY <1>1, Text
<1>3. n \in Nat /\ n >= 2 /\ q = n + 4
  BY <1>1, Marks
<1>4. e \in Nat /\ k \in Nat
  <2>1. Len(f.lines) \in Nat /\ Len(f.data) \in Nat
    BY Composed
  <2>2. HeadSize(f.lines) \in Nat
    BY Sizes
  <2>3. c \in Seq(Symbols)
    BY <1>2 DEF FormText
  <2>4. k \in Nat
    BY <2>3, <1>1
  <2> QED BY <1>1, <2>1, <2>2, <2>4 DEF DataEnd
<1>5. ASSUME NEW i, Occurs(Close, c, i)
      PROVE  /\ i \in Nat /\ i > e /\ i + q - 1 <= k
             /\ \A j \in 1..q : c[i + j - 1] = Close[j]
  <2>1. i \in Nat \ {0} /\ i + q - 1 <= k /\ \A j \in 1..q : c[i + j - 1] = Close[j]
    BY <1>1, <1>5 DEF Occurs
  <2>2. Occurs(Delimiter, c, i)
    <3>1. Len(Delimiter) = n + 2 /\ \A j \in 1..Len(Delimiter) : Close[j] = Delimiter[j]
      BY <1>1, Marks
    <3>2. i + Len(Delimiter) - 1 <= k /\ \A j \in 1..Len(Delimiter) : j \in 1..q
      BY <2>1, <3>1, <1>3, <1>4
    <3> QED BY <2>1, <3>1, <3>2, <1>1 DEF Occurs
  <2>3. i > DataEnd(f)
    BY <2>2, <1>1, NoDelimiterBefore
  <2> QED BY <2>1, <2>3, <1>1
<1>6. /\ Close[1] = "r" /\ Close[3] = "-" /\ Close[n + 3] = "-"
  <2>1. 1 \in 1..Len(Delimiter) /\ 3 \in 1..Len(Delimiter) /\ 1 \in 1..Len(Open) /\ 1 + 2 = 3
    BY <1>1, <1>3, Marks
  <2>2. Open[1] = "-"
    BY DEF Open
  <2> QED BY <2>1, <2>2, <1>1, Marks
<1>7. ASSUME NEW i, Occurs(Close, c, i)
      PROVE  c[i] = "r" /\ c[i + 2] = "-" /\ c[i + n + 2] = "-"
  <2>1. {1, 3, n + 3} \subseteq 1..q /\ i + 1 - 1 = i /\ i + 3 - 1 = i + 2
        /\ i + (n + 3) - 1 = i + n + 2
    BY <1>3, <1>5, <1>7
  <2>2. c[i + 1 - 1] = Close[1] /\ c[i + 3 - 1] = Close[3] /\ c[i + (n + 3) - 1] = Close[n + 3]
    BY <2>1, <1>5, <1>7
  <2> QED BY <2>1, <2>2, <1>6
<1>8. CASE f.then = "cut"
  <2>1. k = e
    BY <1>8, <1>1, <1>2 DEF FormText
  <2>2. ASSUME NEW i, Occurs(Close, c, i) PROVE FALSE
    <3>1. i \in Nat /\ i > e /\ i + q - 1 <= k
      BY <1>5, <2>2
    <3> QED BY <2>1, <3>1, <1>3, <1>4
  <2> QED BY <1>1, <1>8, <2>2
<1>9. ASSUME f.then # "cut"
      PROVE  /\ \A j \in 1..(n + 2) : c[e + j] = Delimiter[j]
             /\ BodyEnd(f) = k - 2
  BY <1>9, <1>1, <1>2, Marks DEF FormText, BodyEnd
<1>10. CASE f.then = "close"
  <2>1. k = e + n + 6 /\ c[e + n + 3] = "-" /\ c[e + n + 4] = "-"
    BY <1>10, <1>1, <1>2 DEF FormText, ClosedText
  <2>2. k - 2 - q + 1 = e + 1
    BY <2>1, <1>3, <1>4
  <2>3. Occurs(Close, c, e + 1)
    <3>1. ASSUME NEW j \in 1..q PROVE c[e + j] = Close[j]
      <4>1. j = n + 3 \/ j = n + 4 \/ j \in 1..(n + 2)
        BY <1>3
      <4>2. Close[n + 3] = "-" /\ Close[n + 4] = "-"
            /\ \A x \in 1..(n + 2) : Close[x] = Delimiter[x]
        BY <1>1, Marks
      <4>3. e + (n + 3) = e + n + 3 /\ e + (n + 4) = e + n + 4
        BY <1>3, <1>4
      <4> QED BY <4>1, <4>2, <4>3, <2>1, <1>9, <1>10
    <3>2. \A j \in 1..q : (e + 1) + j - 1 = e + j
      BY <1>3, <1>4
    <3>3. e + 1 \in Nat \ {0} /\ (e + 1) + q - 1 <= k
      BY <2>1, <1>3, <1>4
    <3> QED BY <3>1, <3>2, <3>3, <1>1 DEF Occurs
  <2>4. ASSUME NEW i, Occurs(Close, c, i) PROVE i >= e + 1
    <3>1. i \in Nat /\ i > e
      BY <1>5, <2>4
    <3> QED BY <3>1, <1>4
  <2> QED BY <1>1, <1>9, <1>10, <2>2, <2>3, <2>4
<1>11. CASE f.then \in {"second", "other"}
  <2>1. PICK line : AnotherText(c, e, line) /\ line \in {"D", "O"}
    BY <1>11, <1>1, <1>2 DEF FormText
  <2>2. k = e + 2 * n + 16
    BY <2>1, <1>1 DEF AnotherText
  <2>3. k - 2 - q + 1 = e + n + 11
    BY <2>2, <1>3, <1>4
  <2>4. Occurs(Close, c, e + n + 11)
    <3>1. \A j \in 1..q : c[e + n + 10 + j] = Close[j]
      BY <2>1, <1>1 DEF AnotherText
    <3>2. \A j \in 1..q : (e + n + 11) + j - 1 = e + n + 10 + j
      BY <1>3, <1>4
    <3>3. e + n + 11 \in Nat \ {0} /\ (e + n + 11) + q - 1 <= k
      BY <2>2, <1>3, <1>4
    <3> QED BY <3>1, <3>2, <3>3, <1>1 DEF Occurs
  <2>5. ASSUME NEW i, Occurs(Close, c, i) PROVE i >= e + n + 11
    <3>1. i \in Nat /\ i > e /\ c[i] = "r" /\ c[i + 2] = "-" /\ c[i + n + 2] = "-"
      BY <1>5, <1>7, <2>5
    <3> SUFFICES ASSUME i < e + n + 11 PROVE FALSE
      BY <3>1, <1>3, <1>4
    <3>2. PICK j : j = i - e
      OBVIOUS
    <3>3. j \in Nat /\ 1 <= j /\ j <= n + 10 /\ i = e + j
      BY <3>1, <3>2, <1>3, <1>4
    <3>4. /\ c[e + n + 3] = "r" /\ c[e + n + 4] = "l" /\ c[e + n + 5] = line
          /\ c[e + n + 7] = "l" /\ c[e + n + 8] = "r" /\ c[e + n + 9] = "l" /\ c[e + n + 10] = "x"
      BY <2>1, <1>1 DEF AnotherText
    <3>5. j # 1
      <4>1. e + 1 + n + 2 = e + n + 3
        BY <1>3, <1>4
      <4> QED BY <4>1, <3>1, <3>3, <3>4
    <3>6. ASSUME 2 <= j, j <= n + 2 PROVE FALSE
      <4>1. j \in 1..(n + 2) /\ (j = 2 \/ j - 2 \in 1..n)
        BY <3>3, <3>6, <1>3
      <4>2. Delimiter[j] # "r"
        <5>1. CASE j = 2
          BY <5>1, Marks
        <5>2. CASE j - 2 \in 1..n
          <6>1. (j - 2) + 2 = j /\ j - 2 \in 1..Len(Open)
            BY <5>2, <3>3, <1>1
          <6>2. Delimiter[(j - 2) + 2] = Open[j - 2] /\ Open[j - 2] # "r"
            BY <6>1, Marks
          <6> QED BY <6>1, <6>2
        <5> QED BY <4>1, <5>1, <5>2
      <4> QED BY <4>1, <4>2, <3>1, <3>3, <1>9, <1>11
    <3>7. j # n + 3
      <4>1. e + (n + 3) + 2 = e + n + 5
        BY <1>3, <1>4
      <4> QED BY <4>1, <3>1, <3>3, <3>4, <2>1
    <3>8. j # n + 4 /\ j # n + 5
      <4>1. e + (n + 4) = e + n + 4 /\ e + (n + 5) = e + n + 5
        BY <1>3, <1>4
      <4> QED BY <4>1, <3>1, <3>3, <3>4, <2>1
    <3>9. j # n + 6
      <4>1. e + (n + 6) + 2 = e + n + 8
        BY <1>3, <1>4
      <4> QED BY <4>1, <3>1, <3>3, <3>4
    <3>10. j # n + 7 /\ j # n + 9 /\ j # n + 10
      <4>1. e + (n + 7) = e + n + 7 /\ e + (n + 9) = e + n + 9 /\ e + (n + 10) = e + n + 10
        BY <1>3, <1>4
      <4> QED BY <4>1, <3>1, <3>3, <3>4
    <3>11. j # n + 8
      <4>1. e + (n + 8) + 2 = e + n + 10
        BY <1>3, <1>4
      <4> QED BY <4>1, <3>1, <3>3, <3>4
    <3> QED BY <3>3, <3>5, <3>6, <3>7, <3>8, <3>9, <3>10, <3>11, <1>3
  <2> QED BY <1>1, <1>9, <1>11, <2>3, <2>4, <2>5
<1> QED BY <1>8, <1>10, <1>11, Composed

(* The bytes of a form.                                                    *)
FormBytes(b, f) ==
  /\ b \in Seq(Symbols) /\ Len(b) = Len(f.pre) + BodyEnd(f) + Len(f.epilogue)
  /\ \A i \in 1..Len(f.pre) : b[i] = f.pre[i]
  /\ \A i \in 1..BodyEnd(f) : b[Len(f.pre) + i] = Canonical(f)[i]

(* A form up to its close delimiter.                                       *)
LEMMA Bodies ==
  ASSUME NEW f, WellComposed(f)
  PROVE  /\ Canonical(f) \in Seq(Symbols) /\ BodyEnd(f) \in Nat
         /\ BodyEnd(f) <= Len(Canonical(f)) /\ BodyEnd(f) > Len(Open) + 4
<1>1. FormText(Canonical(f), f)
  BY Text
<1>2. Canonical(f) \in Seq(Symbols) /\ Len(Canonical(f)) \in Nat
  BY <1>1 DEF FormText
<1>3. Len(Open) \in Nat /\ Len(f.lines) \in Nat /\ Len(f.lines) >= 1 /\ Len(f.data) \in Nat
  BY Marks, Composed
<1>4. DataEnd(f) \in Nat /\ DataEnd(f) > Len(Open) + 4
  <2>1. PICK h : h = HeadSize(f.lines)
    OBVIOUS
  <2>2. h \in Nat /\ h >= Len(Open) + 7 /\ DataEnd(f) = h + Len(f.data)
    BY <2>1, Sizes
  <2> QED BY <2>2, <1>3
<1>5. f.then = "cut" => Len(Canonical(f)) = DataEnd(f)
  BY <1>1 DEF FormText
<1>6. f.then # "cut" => Len(Canonical(f)) > DataEnd(f) + Len(Open) + 5
  BY <1>1 DEF FormText
<1> QED BY <1>2, <1>3, <1>4, <1>5, <1>6 DEF BodyEnd

(* The bytes of a form: preamble, body, epilogue.                          *)
LEMMA Wire ==
  ASSUME NEW f, WellComposed(f)
  PROVE  FormBytes(Written(f), f)
<1>1. PICK c, inner : /\ c = Canonical(f)
                      /\ inner = IF f.then = "cut" THEN c ELSE SubSeq(c, 1, Len(c) - 2)
  OBVIOUS
<1>2. c \in Seq(Symbols) /\ Len(c) \in Nat /\ BodyEnd(f) \in Nat /\ BodyEnd(f) <= Len(c)
  BY <1>1, Bodies
<1>3. inner \in Seq(Symbols) /\ Len(inner) = BodyEnd(f) /\ \A i \in 1..BodyEnd(f) : inner[i] = c[i]
  <2>1. CASE f.then = "cut"
    BY <2>1, <1>1, <1>2 DEF BodyEnd
  <2>2. CASE f.then # "cut"
    <3>1. inner = SubSeq(c, 1, BodyEnd(f))
      BY <2>2, <1>1 DEF BodyEnd
    <3>2. PICK j : j = BodyEnd(f)
      OBVIOUS
    <3>3. j \in Nat /\ 1 <= j + 1 /\ j <= Len(c)
      BY <3>2, <1>2
    <3>4. inner \in Seq(Symbols) /\ Len(inner) = j - 1 + 1 /\ \A i \in 1..(j - 1 + 1) : inner[i] = c[1 + i - 1]
      BY <3>1, <3>2, <3>3, <1>2, Stretch
    <3>5. j - 1 + 1 = j /\ \A i \in 1..j : 1 + i - 1 = i
      BY <3>3
    <3> QED BY <3>2, <3>4, <3>5
  <2> QED BY <2>1, <2>2
<1>4. PICK a : a = f.pre \o inner
  OBVIOUS
<1>5. PICK b : b = a \o f.epilogue
  OBVIOUS
<1>6. b = Written(f)
  BY <1>1, <1>4, <1>5 DEF Written
<1>7. /\ a \in Seq(Symbols) /\ Len(a) = Len(f.pre) + Len(inner)
      /\ \A i \in 1..Len(f.pre) : a[i] = f.pre[i]
      /\ \A i \in 1..Len(inner) : a[Len(f.pre) + i] = inner[i]
  <2>1. f.pre \in Seq(Symbols) /\ inner \in Seq(Symbols)
    BY <1>3, Composed
  <2> QED BY <2>1, <1>4
<1>8. /\ b \in Seq(Symbols) /\ Len(b) = Len(a) + Len(f.epilogue)
      /\ \A i \in 1..Len(a) : b[i] = a[i]
  <2>1. a \in Seq(Symbols) /\ f.epilogue \in Seq(Symbols)
    BY <1>7, Composed
  <2> QED BY <2>1, <1>5
<1>9. PICK p, j : p = Len(f.pre) /\ j = BodyEnd(f)
  OBVIOUS
<1>0. p \in Nat /\ j \in Nat /\ Len(a) = p + j /\ Len(inner) = j
  BY <1>2, <1>3, <1>7, <1>9, Composed
<1>10. \A i \in 1..BodyEnd(f) : b[Len(f.pre) + i] = c[i]
  <2>1. ASSUME NEW i \in 1..j PROVE b[p + i] = c[i]
    <3>1. p + i \in 1..Len(a) /\ i \in 1..Len(inner)
      BY <1>0
    <3>2. a[p + i] = inner[i] /\ inner[i] = c[i]
      BY <3>1, <1>3, <1>7, <1>9
    <3> QED BY <3>1, <3>2, <1>8
  <2> QED BY <2>1, <1>9
<1>11. \A i \in 1..Len(f.pre) : b[i] = f.pre[i]
  <2>1. \A i \in 1..p : i \in 1..Len(a)
    BY <1>0
  <2> QED BY <2>1, <1>7, <1>8, <1>9
<1>12. Len(b) = Len(f.pre) + BodyEnd(f) + Len(f.epilogue)
  BY <1>3, <1>7, <1>8
<1> QED BY <1>1, <1>6, <1>8, <1>10, <1>11, <1>12 DEF FormBytes

----------------------------------------------------------------------------
(* The first delimiter of a body.                                          *)

(* The opening delimiter is found when it has come whole, and only then;   *)
(* and a preamble is only given up where it may be.                        *)
LEMMA Opens ==
  ASSUME NEW f, WellComposed(f), NEW b, FormBytes(b, f), NEW k \in Nat, k <= Len(b)
  PROVE  LET opening == Opening(SubSeq(b, 1, k)) IN
         IF k < Len(f.pre) + Len(Open)
           THEN opening.is \in {"more", "refused"} /\ (opening.is = "refused" => MayRefusePreamble(f.pre))
           ELSE opening = [is |-> "open", body |-> SubSeq(b, Len(f.pre) + 1, k)]
<1>1. PICK r, n, p : r = SubSeq(b, 1, k) /\ n = Len(Open) /\ p = Len(f.pre)
  OBVIOUS
<1>2. b \in Seq(Symbols) /\ f.pre \in Seq(Symbols) /\ Open \in Seq(Symbols) /\ Delimiter \in Seq(Symbols)
  BY Composed, Marks DEF FormBytes
<1>3. n \in Nat /\ n >= 2 /\ p \in Nat
  BY <1>1, Marks, Composed
<1>4. Len(Delimiter) = n + 2 /\ Delimiter[2] = "l" /\ \A i \in 1..n : Open[i] # "l"
  BY <1>1, Marks
<1>5. r \in Seq(Symbols) /\ Len(r) = k /\ \A i \in 1..k : r[i] = b[i]
  <2>1. 1 <= k + 1 /\ k - 1 + 1 = k /\ \A i \in 1..k : 1 + i - 1 = i
    OBVIOUS
  <2>2. r \in Seq(Symbols) /\ Len(r) = k - 1 + 1 /\ \A i \in 1..(k - 1 + 1) : r[i] = b[1 + i - 1]
    BY <2>1, <1>1, <1>2, Stretch
  <2> QED BY <2>1, <2>2
<1>6. \A i \in 1..p : b[i] = f.pre[i]
  BY <1>1 DEF FormBytes
<1>7. \A i \in 1..n : b[p + i] = Open[i]
  <2>1. FormText(Canonical(f), f)
    BY Text
  <2>2. \A i \in 1..n : Canonical(f)[i] = Open[i]
    BY <2>1, <1>1 DEF FormText, PartText
  <2>3. \A i \in 1..n : i \in 1..BodyEnd(f)
    <3>1. BodyEnd(f) \in Nat /\ BodyEnd(f) > n + 4
      BY <1>1, Bodies
    <3> QED BY <3>1, <1>3
  <2> QED BY <2>2, <2>3, <1>1 DEF FormBytes
<1> DEFINE at == Find(r, Delimiter)
<1>8. Opening(r) = IF StartsWith(r, Open) THEN [is |-> "open", body |-> r]
                   ELSE IF StartsWith(Open, r) THEN [is |-> "more"]
                   ELSE IF at > 0 THEN [is |-> "open", body |-> From(r, at + 2)]
                   ELSE IF Len(r) > MaxPreamble THEN [is |-> "refused"]
                   ELSE [is |-> "more"]
  BY DEF Opening, Delimiter
<1>9. StartsWith(r, Open) <=> (n <= k /\ \A i \in 1..n : r[i] = Open[i])
  <2>1. StartsWith(r, Open) <=> (n <= k /\ SubSeq(r, 1, n) = Open)
    BY <1>1, <1>5 DEF StartsWith
  <2>2. ASSUME n <= k PROVE SubSeq(r, 1, n) = Open <=> \A i \in 1..n : r[i] = Open[i]
    BY <2>2, <1>1, <1>2, <1>5, Prefixed
  <2> QED BY <2>1, <2>2
<1>10. StartsWith(Open, r) => k <= n
  BY <1>1, <1>5 DEF StartsWith
<1>11. CASE p = 0
  <2>1. ASSUME k < n PROVE StartsWith(Open, r)
    <3>1. PICK x : x = SubSeq(Open, 1, k)
      OBVIOUS
    <3>2. x \in Seq(Symbols) /\ Len(x) = k /\ \A i \in 1..k : x[i] = Open[i]
      <4>1. 1 <= k + 1 /\ k - 1 + 1 = k /\ (\A i \in 1..k : 1 + i - 1 = i) /\ k <= Len(Open)
        BY <1>1, <1>3, <2>1
      <4>2. x \in Seq(Symbols) /\ Len(x) = k - 1 + 1 /\ \A i \in 1..(k - 1 + 1) : x[i] = Open[1 + i - 1]
        BY <4>1, <3>1, <1>2, Stretch
      <4> QED BY <4>1, <4>2
    <3>3. \A i \in 1..k : x[i] = r[i]
      <4>1. \A i \in 1..k : i \in 1..n /\ p + i = i
        BY <1>3, <1>11, <2>1
      <4> QED BY <4>1, <3>2, <1>5, <1>7
    <3>4. x = r
      BY <3>2, <3>3, <1>5, SameText
    <3> QED BY <3>1, <3>4, <1>1, <1>3, <1>5, <2>1 DEF StartsWith
  <2>2. ASSUME k < n PROVE Opening(r).is = "more"
    <3>1. ~StartsWith(r, Open)
      BY <2>2, <1>3, <1>9
    <3> QED BY <2>1, <2>2, <3>1, <1>8
  <2>3. ASSUME k >= n PROVE Opening(r) = [is |-> "open", body |-> SubSeq(b, p + 1, k)]
    <3>1. \A i \in 1..n : i \in 1..k /\ p + i = i
      BY <1>3, <1>11, <2>3
    <3>2. StartsWith(r, Open)
      BY <2>3, <3>1, <1>5, <1>7, <1>9
    <3>3. SubSeq(b, p + 1, k) = r
      BY <1>1, <1>11
    <3> QED BY <3>2, <3>3, <1>8
  <2> QED BY <2>2, <2>3, <1>1, <1>3, <1>11
<1>12. CASE p # 0
  <2>1. p > 1 /\ Find(f.pre \o Open, Delimiter) = p - 1 /\ ~StartsWith(f.pre, Open) /\ f.pre # <<>>
    <3>1. f.pre # <<>>
      BY <1>1, <1>2, <1>12
    <3> QED BY <3>1, <1>1 DEF WellComposed
  <2>2. PICK w : w = f.pre \o Open
    OBVIOUS
  <2>3. /\ w \in Seq(Symbols) /\ Len(w) = Len(f.pre) + Len(Open)
        /\ \A i \in 1..Len(f.pre) : w[i] = f.pre[i]
        /\ \A i \in 1..Len(Open) : w[Len(f.pre) + i] = Open[i]
    <3>1. f.pre \in Seq(Symbols) /\ Open \in Seq(Symbols)
      BY <1>2
    <3> QED BY <3>1, <2>2
  <2>4. \A i \in 1..(p + n) : w[i] = b[i]
    <3> SUFFICES ASSUME NEW i \in 1..(p + n) PROVE w[i] = b[i]
      OBVIOUS
    <3>1. CASE i <= p
      <4>1. i \in 1..p
        BY <3>1, <1>3
      <4> QED BY <4>1, <2>3, <1>1, <1>6
    <3>2. CASE i > p
      <4>1. PICK j : j = i - p
        OBVIOUS
      <4>2. j \in 1..n /\ p + j = i
        BY <4>1, <3>2, <1>3
      <4> QED BY <4>2, <2>3, <1>1, <1>7
    <3> QED BY <3>1, <3>2, <1>3
  <2>5. /\ Occurs(Delimiter, w, p - 1)
        /\ \A i : Occurs(Delimiter, w, i) => p - 1 <= i
    <3>1. Find(w, Delimiter) = p - 1 /\ p - 1 # 0
      BY <2>1, <2>2, <1>3
    <3> QED BY <3>1, <2>3, <1>2, Finds
  <2>6. w[p] = "l"
    <3>1. 2 \in 1..Len(Delimiter) /\ (p - 1) + 2 - 1 = p
      BY <1>3, <1>4
    <3>2. w[(p - 1) + 2 - 1] = Delimiter[2]
      BY <3>1, <2>5 DEF Occurs
    <3> QED BY <3>1, <3>2, <1>4
  <2>7. ~StartsWith(r, Open)
    <3> SUFFICES ASSUME n <= k, \A i \in 1..n : r[i] = Open[i] PROVE FALSE
      BY <1>9
    <3>1. CASE p < n
      <4>1. p \in 1..n /\ p \in 1..k /\ p \in 1..(p + n)
        BY <3>1, <2>1, <1>3
      <4> QED BY <4>1, <2>4, <2>6, <1>4, <1>5
    <3>2. CASE n <= p
      <4>1. \A i \in 1..n : i \in 1..p /\ i \in 1..k
        BY <3>2, <1>3
      <4>2. \A i \in 1..n : f.pre[i] = Open[i]
        BY <4>1, <1>5, <1>6
      <4>3. PICK x : x = SubSeq(f.pre, 1, n)
        OBVIOUS
      <4>4. x \in Seq(Symbols) /\ Len(x) = n /\ \A i \in 1..n : x[i] = f.pre[i]
        <5>1. 1 <= n + 1 /\ n - 1 + 1 = n /\ (\A i \in 1..n : 1 + i - 1 = i) /\ n <= Len(f.pre)
          BY <1>1, <1>3, <3>2
        <5>2. x \in Seq(Symbols) /\ Len(x) = n - 1 + 1 /\ \A i \in 1..(n - 1 + 1) : x[i] = f.pre[1 + i - 1]
          BY <5>1, <4>3, <1>2, <1>3, Stretch
        <5> QED BY <5>1, <5>2
      <4>5. x = Open
        BY <4>2, <4>4, <1>1, <1>2, SameText
      <4> QED BY <4>3, <4>5, <2>1, <3>2, <1>1 DEF StartsWith
    <3> QED BY <3>1, <3>2, <1>3
  <2>8. \A i : Occurs(Delimiter, r, i) /\ i < p => Occurs(Delimiter, w, i)
    <3> SUFFICES ASSUME NEW i, Occurs(Delimiter, r, i), i < p PROVE Occurs(Delimiter, w, i)
      OBVIOUS
    <3>1. i \in Nat /\ i >= 1 /\ i + (n + 2) - 1 <= k /\ \A j \in 1..(n + 2) : r[i + j - 1] = Delimiter[j]
      BY <1>4, <1>5 DEF Occurs
    <3>2. \A j \in 1..(n + 2) : i + j - 1 \in 1..k /\ i + j - 1 \in 1..(p + n)
      BY <3>1, <1>3
    <3>3. i + (n + 2) - 1 <= p + n
      BY <3>1, <1>3
    <3>4. \A j \in 1..(n + 2) : w[i + j - 1] = Delimiter[j]
      BY <3>1, <3>2, <2>4, <1>5
    <3> QED BY <3>1, <3>3, <3>4, <2>3, <1>1, <1>4 DEF Occurs
  <2>9. \A i : Occurs(Delimiter, r, i) => i \in Nat /\ p - 1 <= i /\ i + (n + 2) - 1 <= k
    <3> SUFFICES ASSUME NEW i, Occurs(Delimiter, r, i) PROVE i \in Nat /\ p - 1 <= i /\ i + (n + 2) - 1 <= k
      OBVIOUS
    <3>1. i \in Nat /\ i + (n + 2) - 1 <= k
      BY <1>4, <1>5 DEF Occurs
    <3>2. i < p => p - 1 <= i
      BY <2>5, <2>8
    <3> QED BY <3>1, <3>2, <1>3
  <2>10. at \in Nat /\ (at # 0 => Occurs(Delimiter, r, at)) /\ \A i : Occurs(Delimiter, r, i) => at # 0 /\ at <= i
    BY <1>2, <1>5, Finds
  <2> HIDE DEF at
  <2>11. CASE k < p + n
    <3>1. at = 0
      <4>1. at # 0 => p - 1 <= at /\ at + (n + 2) - 1 <= k
        BY <2>9, <2>10
      <4> QED BY <4>1, <2>10, <2>11, <1>3
    <3>2. Opening(r).is \in {"more", "refused"}
      BY <3>1, <2>7, <1>8
    <3>3. Opening(r).is = "refused" => k > MaxPreamble
      BY <3>1, <2>7, <1>5, <1>8
    <3>4. k > MaxPreamble => MayRefusePreamble(f.pre)
      <4>1. MaxPreamble \in Nat
        BY FramerAssumption
      <4>2. k > MaxPreamble => p + n - 1 > MaxPreamble
        BY <4>1, <2>11, <1>3
      <4> QED BY <4>2, <2>1, <1>1 DEF MayRefusePreamble
    <3> QED BY <3>2, <3>3, <3>4, <2>11, <1>1
  <2>12. CASE k >= p + n
    <3>1. Occurs(Delimiter, r, p - 1)
      <4>1. p - 1 \in Nat \ {0} /\ (p - 1) + (n + 2) - 1 <= k
        BY <2>1, <2>12, <1>3
      <4>2. \A j \in 1..(n + 2) : (p - 1) + j - 1 \in 1..k /\ (p - 1) + j - 1 \in 1..(p + n)
        BY <2>1, <2>12, <1>3
      <4>3. \A j \in 1..(n + 2) : w[(p - 1) + j - 1] = Delimiter[j]
        BY <2>5, <1>4 DEF Occurs
      <4>4. \A j \in 1..(n + 2) : r[(p - 1) + j - 1] = Delimiter[j]
        BY <4>2, <4>3, <2>4, <1>5
      <4> QED BY <4>1, <4>4, <1>4, <1>5 DEF Occurs
    <3>2. at = p - 1
      <4>1. at # 0 /\ at <= p - 1 /\ p - 1 <= at
        BY <3>1, <2>9, <2>10
      <4> QED BY <4>1, <2>10, <1>3
    <3>3. ~StartsWith(Open, r)
      BY <2>1, <2>12, <1>3, <1>10
    <3>4. From(r, at + 2) = SubSeq(b, p + 1, k)
      <4>1. at + 2 = p + 1 /\ at > 0
        BY <3>2, <2>1, <1>3
      <4>2. From(r, at + 2) = SubSeq(r, p + 1, k)
        BY <4>1, <1>5 DEF From
      <4>3. PICK y : y = p + 1
        OBVIOUS
      <4>4. y \in Nat /\ 1 <= y /\ y <= k + 1
        BY <4>3, <2>12, <1>3
      <4>5. SubSeq(SubSeq(b, 1, k), y, k) = SubSeq(b, y, k)
        BY <4>4, <1>2, Shorter
      <4> QED BY <4>2, <4>3, <4>5, <1>1
    <3>5. at > 0
      BY <3>2, <2>1, <1>3
    <3>6. Opening(r) = [is |-> "open", body |-> SubSeq(b, p + 1, k)]
      BY <3>3, <3>4, <3>5, <2>7, <1>8
    <3> QED BY <3>6, <2>12, <1>1, <1>3
  <2> QED BY <2>11, <2>12, <1>3
<1> QED BY <1>11, <1>12

----------------------------------------------------------------------------
(* The streaming parser in a form's text.  Its state after n symbols is    *)
(* given without recursion, each byte is shown to take it to the next, and *)
(* so Parse takes it from n to m symbols however they are cut.             *)

(* What the parser makes of a form's text: its state after n symbols.      *)
Parser(at, held, parts, filename, type, data, done, fault) ==
  [at |-> at, held |-> held, parts |-> parts, filename |-> filename,
   type |-> type, data |-> data, done |-> done, fault |-> fault]

(* The type the parser has seen after j header lines, and the line it is   *)
(* in after n symbols.                                                     *)
TypeSeen(lines, j) ==
  LET types == {i \in 1..j : lines[i] \in TypeLines}
  IN IF types = {} THEN "none" ELSE lines[Max(types)]

Line(n) == (n - Len(Open) - 2) \div 3

(* How much of the data is held back as what may begin a delimiter.        *)
Hold(f, n) ==
  Max({i \in 0..Len(Delimiter) : /\ i <= n - HeadSize(f.lines)
                                 /\ \A j \in 1..i : Canonical(f)[n - i + j] = Delimiter[j]})

(* The parser in the header block, past the data, in the data, and after a *)
(* part that is not the file.                                              *)
Heading(f, j, held) ==
  Parser("head", held, IF j = 0 THEN 0 ELSE 1, IF j = 0 THEN "none" ELSE f.lines[1],
         TypeSeen(f.lines, j), <<>>, FALSE, "none")
Past(f, at, held, parts, done, fault) ==
  Parser(at, held, parts, f.lines[1], TypeSeen(f.lines, Len(f.lines)), f.data, done, fault)
DataState(f, n) ==
  Parser("data", SubSeq(Canonical(f), n - Hold(f, n) + 1, n), 1, f.lines[1],
         TypeSeen(f.lines, Len(f.lines)),
         SubSeq(Canonical(f), HeadSize(f.lines) + 1, n - Hold(f, n)), FALSE, "none")
Refused == Parser("head", <<>>, 0, "none", "none", <<>>, FALSE, "unexpected_part")

(* The state of the parser after n symbols of a form, without recursion.   *)
StateAt(f, n) ==
  LET c == Canonical(f)
      o == Len(Open)
      e == DataEnd(f) + Len(Delimiter)
  IN IF n < o THEN [NewParser EXCEPT !.held = SubSeq(c, 1, n)]
     ELSE IF n < o + 2 THEN [NewParser EXCEPT !.at = "delimited", !.held = SubSeq(c, o + 1, n)]
     ELSE IF f.lines[1] = "O" /\ n >= o + 5 THEN Refused
     ELSE IF n < HeadSize(f.lines) THEN Heading(f, Line(n), SubSeq(c, o + 3 * Line(n) + 3, n))
     ELSE IF f.then = "cut" \/ n < e THEN DataState(f, n)
     ELSE IF n < e + 2 THEN Past(f, "delimited", SubSeq(c, e + 1, n), 1, FALSE, "none")
     ELSE IF f.then = "close" THEN
       IF n < Len(c) THEN Past(f, "closing", SubSeq(c, e + 3, n), 1, FALSE, "none")
                     ELSE Past(f, "closed", <<"r">>, 1, TRUE, "none")
     ELSE IF n < e + 5 THEN Past(f, "head", SubSeq(c, e + 3, n), 1, TRUE, "none")
     ELSE IF f.then = "second" THEN Past(f, "head", <<>>, 2, TRUE, "duplicate_file")
     ELSE Past(f, "head", <<>>, 1, TRUE, "unexpected_part")

(* A parser with some of it changed.                                       *)
LEMMA SetAt ==
  ASSUME NEW at, NEW held, NEW parts, NEW filename, NEW type, NEW data, NEW done, NEW fault, NEW at2
  PROVE  [Parser(at, held, parts, filename, type, data, done, fault) EXCEPT !.at = at2] =
           Parser(at2, held, parts, filename, type, data, done, fault)
BY DEF Parser

LEMMA SetHeld ==
  ASSUME NEW at, NEW held, NEW parts, NEW filename, NEW type, NEW data, NEW done, NEW fault, NEW held2
  PROVE  [Parser(at, held, parts, filename, type, data, done, fault) EXCEPT !.held = held2] =
           Parser(at, held2, parts, filename, type, data, done, fault)
BY DEF Parser

LEMMA SetParts ==
  ASSUME NEW at, NEW held, NEW parts, NEW filename, NEW type, NEW data, NEW done, NEW fault, NEW parts2
  PROVE  [Parser(at, held, parts, filename, type, data, done, fault) EXCEPT !.parts = parts2] =
           Parser(at, held, parts2, filename, type, data, done, fault)
BY DEF Parser

LEMMA SetFilename ==
  ASSUME NEW at, NEW held, NEW parts, NEW filename, NEW type, NEW data, NEW done, NEW fault, NEW filename2
  PROVE  [Parser(at, held, parts, filename, type, data, done, fault) EXCEPT !.filename = filename2] =
           Parser(at, held, parts, filename2, type, data, done, fault)
BY DEF Parser

LEMMA SetType ==
  ASSUME NEW at, NEW held, NEW parts, NEW filename, NEW type, NEW data, NEW done, NEW fault, NEW type2
  PROVE  [Parser(at, held, parts, filename, type, data, done, fault) EXCEPT !.type = type2] =
           Parser(at, held, parts, filename, type2, data, done, fault)
BY DEF Parser

LEMMA SetData ==
  ASSUME NEW at, NEW held, NEW parts, NEW filename, NEW type, NEW data, NEW done, NEW fault, NEW data2
  PROVE  [Parser(at, held, parts, filename, type, data, done, fault) EXCEPT !.data = data2] =
           Parser(at, held, parts, filename, type, data2, done, fault)
BY DEF Parser

LEMMA SetDone ==
  ASSUME NEW at, NEW held, NEW parts, NEW filename, NEW type, NEW data, NEW done, NEW fault, NEW done2
  PROVE  [Parser(at, held, parts, filename, type, data, done, fault) EXCEPT !.done = done2] =
           Parser(at, held, parts, filename, type, data, done2, fault)
BY DEF Parser

LEMMA SetFault ==
  ASSUME NEW at, NEW held, NEW parts, NEW filename, NEW type, NEW data, NEW done, NEW fault, NEW fault2
  PROVE  [Parser(at, held, parts, filename, type, data, done, fault) EXCEPT !.fault = fault2] =
           Parser(at, held, parts, filename, type, data, done, fault2)
BY DEF Parser

(* A stretch and the symbol after it.                                      *)
LEMMA More ==
  ASSUME NEW S, NEW s \in Seq(S), NEW i \in Nat, NEW n \in Nat, 1 <= i, i <= n + 1, n < Len(s)
  PROVE  Append(SubSeq(s, i, n), s[n + 1]) = SubSeq(s, i, n + 1)
OBVIOUS

(* Short texts, spelt out.                                                 *)
LEMMA TwoLong ==
  ASSUME NEW S, NEW x \in Seq(S), NEW a \in S, NEW b \in S, Len(x) = 2, x[1] = a, x[2] = b
  PROVE  x = <<a, b>>
<1>1. PICK y : y = <<a, b>>
  OBVIOUS
<1>2. y \in Seq(S) /\ Len(y) = 2 /\ y[1] = a /\ y[2] = b
  BY <1>1
<1>3. \A i \in 1..2 : x[i] = y[i]
  BY <1>2
<1> QED BY <1>1, <1>2, <1>3, SameText

LEMMA ThreeLong ==
  ASSUME NEW S, NEW x \in Seq(S), NEW a \in S, NEW b \in S, NEW c \in S,
         Len(x) = 3, x[1] = a, x[2] = b, x[3] = c
  PROVE  x = <<a, b, c>>
<1>1. PICK y : y = <<a, b, c>>
  OBVIOUS
<1>2. y \in Seq(S) /\ Len(y) = 3 /\ y[1] = a /\ y[2] = b /\ y[3] = c
  BY <1>1
<1>3. \A i \in 1..3 : x[i] = y[i]
  BY <1>2
<1> QED BY <1>1, <1>2, <1>3, SameText

LEMMA Short ==
  ASSUME NEW S, NEW s \in Seq(S), NEW i \in Nat, 1 <= i, i <= Len(s) + 1
  PROVE  /\ SubSeq(s, i, i - 1) = <<>>
         /\ i <= Len(s) => SubSeq(s, i, i) = <<s[i]>>
         /\ i + 1 <= Len(s) => SubSeq(s, i, i + 1) = <<s[i], s[i + 1]>>
         /\ i + 2 <= Len(s) => SubSeq(s, i, i + 2) = <<s[i], s[i + 1], s[i + 2]>>
<1>1. SubSeq(s, i, i - 1) = <<>>
  OBVIOUS
<1>2. ASSUME i <= Len(s) PROVE SubSeq(s, i, i) = <<s[i]>>
  <2>1. Append(SubSeq(s, i, i - 1), s[(i - 1) + 1]) = SubSeq(s, i, (i - 1) + 1)
    <3>1. PICK j : j = i - 1
      OBVIOUS
    <3>2. j \in Nat /\ i <= j + 1 /\ j < Len(s)
      BY <1>2, <3>1
    <3> QED BY <3>1, <3>2, More
  <2>2. (i - 1) + 1 = i /\ Append(<<>>, s[i]) = <<s[i]>>
    OBVIOUS
  <2> QED BY <1>1, <2>1, <2>2
<1>3. ASSUME i + 1 <= Len(s) PROVE SubSeq(s, i, i + 1) = <<s[i], s[i + 1]>>
  <2>1. PICK j, x : j = i + 1 /\ x = SubSeq(s, i, j)
    OBVIOUS
  <2>2. j \in Nat /\ i <= j + 1 /\ j <= Len(s) /\ j - i + 1 = 2
    BY <1>3, <2>1
  <2>3. x \in Seq(S) /\ Len(x) = j - i + 1 /\ \A n \in 1..(j - i + 1) : x[n] = s[i + n - 1]
    BY <2>1, <2>2, Stretch
  <2>4. x[1] = s[i] /\ x[2] = s[i + 1] /\ s[i] \in S /\ s[i + 1] \in S
    <3>1. i + 1 - 1 = i /\ i + 2 - 1 = i + 1 /\ i \in 1..Len(s) /\ i + 1 \in 1..Len(s)
      BY <1>3
    <3> QED BY <3>1, <2>2, <2>3
  <2>5. PICK a, b : a = s[i] /\ b = s[i + 1]
    OBVIOUS
  <2>6. x \in Seq(S) /\ Len(x) = 2 /\ x[1] = a /\ x[2] = b /\ a \in S /\ b \in S
    BY <2>2, <2>3, <2>4, <2>5
  <2>7. x = <<a, b>>
    BY <2>6, TwoLong
  <2> QED BY <2>1, <2>5, <2>7
<1>4. ASSUME i + 2 <= Len(s) PROVE SubSeq(s, i, i + 2) = <<s[i], s[i + 1], s[i + 2]>>
  <2>1. PICK j, x : j = i + 2 /\ x = SubSeq(s, i, j)
    OBVIOUS
  <2>2. j \in Nat /\ i <= j + 1 /\ j <= Len(s) /\ j - i + 1 = 3
    BY <1>4, <2>1
  <2>3. x \in Seq(S) /\ Len(x) = j - i + 1 /\ \A n \in 1..(j - i + 1) : x[n] = s[i + n - 1]
    BY <2>1, <2>2, Stretch
  <2>4. x[1] = s[i] /\ x[2] = s[i + 1] /\ x[3] = s[i + 2]
        /\ s[i] \in S /\ s[i + 1] \in S /\ s[i + 2] \in S
    <3>1. i + 1 - 1 = i /\ i + 2 - 1 = i + 1 /\ i + 3 - 1 = i + 2
          /\ i \in 1..Len(s) /\ i + 1 \in 1..Len(s) /\ i + 2 \in 1..Len(s)
      BY <1>4
    <3> QED BY <3>1, <2>2, <2>3
  <2>5. PICK a, b, c : a = s[i] /\ b = s[i + 1] /\ c = s[i + 2]
    OBVIOUS
  <2>6. x \in Seq(S) /\ Len(x) = 3 /\ x[1] = a /\ x[2] = b /\ x[3] = c /\ a \in S /\ b \in S /\ c \in S
    BY <2>2, <2>3, <2>4, <2>5
  <2>7. x = <<a, b, c>>
    BY <2>6, ThreeLong
  <2> QED BY <2>1, <2>5, <2>7
<1> QED BY <1>1, <1>2, <1>3, <1>4

(* The parser's steps, by where it is.                                     *)
LEMMA AtOpen ==
  ASSUME NEW held, NEW byte
  PROVE  ParseByte([NewParser EXCEPT !.held = held], byte) =
           IF Append(held, byte) = Open THEN [NewParser EXCEPT !.at = "delimited", !.held = <<>>]
                                        ELSE [NewParser EXCEPT !.held = Append(held, byte)]
BY DEF ParseByte, NewParser

(* What one byte does in each state of the parser.                         *)
DelimitedOn(held, parts, filename, type, data, done, got) ==
  IF Len(got) < 2 THEN Parser("delimited", got, parts, filename, type, data, done, "none")
  ELSE IF got = CRLF THEN Parser("head", <<>>, parts, filename, type, data, parts > 0, "none")
  ELSE IF got = <<"-", "-">> THEN Parser("closing", <<>>, parts, filename, type, data, done, "none")
  ELSE Parser("delimited", held, parts, filename, type, data, done, "bad_multipart")
LEMMA AtDelimited ==
  ASSUME NEW held, NEW parts, NEW filename, NEW type, NEW data, NEW done, NEW byte
  PROVE  ParseByte(Parser("delimited", held, parts, filename, type, data, done, "none"), byte) =
           DelimitedOn(held, parts, filename, type, data, done, Append(held, byte))
<1> DEFINE p == Parser("delimited", held, parts, filename, type, data, done, "none")
<1>1. PICK got, some : got = Append(held, byte) /\ some = (parts > 0)
  OBVIOUS
<1>2. p.parts = parts /\ p.at = "delimited" /\ p.fault = "none" /\ p.held = held
  BY DEF Parser
<1>3. ParseByte(p, byte) = Delimited(p, got)
  <2> HIDE DEF p
  <2> QED BY <1>1, <1>2 DEF ParseByte
<1>4. Delimited(p, got) =
        IF Len(got) < 2 THEN [p EXCEPT !.held = got]
        ELSE IF got = CRLF THEN [p EXCEPT !.at = "head", !.held = <<>>, !.done = some]
        ELSE IF got = <<"-", "-">> THEN [p EXCEPT !.at = "closing", !.held = <<>>]
        ELSE [p EXCEPT !.fault = "bad_multipart"]
  <2> HIDE DEF p
  <2> QED BY <1>1, <1>2, Zenon DEF Delimited
<1>5. [p EXCEPT !.held = got] = Parser("delimited", got, parts, filename, type, data, done, "none")
  BY SetHeld
<1>6. [p EXCEPT !.at = "head", !.held = <<>>, !.done = some] =
       Parser("head", <<>>, parts, filename, type, data, some, "none")
  <2>1. [p EXCEPT !.at = "head", !.held = <<>>, !.done = some] = [[[p EXCEPT !.at = "head"] EXCEPT !.held = <<>>] EXCEPT !.done = some]
    <3> HIDE DEF p
    <3> QED OBVIOUS
  <2>2. [Parser("delimited", held, parts, filename, type, data, done, "none") EXCEPT !.at = "head"] =
         Parser("head", held, parts, filename, type, data, done, "none")
    BY SetAt
  <2>3. [Parser("head", held, parts, filename, type, data, done, "none") EXCEPT !.held = <<>>] =
         Parser("head", <<>>, parts, filename, type, data, done, "none")
    BY SetHeld
  <2>4. [Parser("head", <<>>, parts, filename, type, data, done, "none") EXCEPT !.done = some] =
         Parser("head", <<>>, parts, filename, type, data, some, "none")
    BY SetDone
  <2> QED BY <2>1, <2>2, <2>3, <2>4, Zenon
<1>7. [p EXCEPT !.at = "closing", !.held = <<>>] =
       Parser("closing", <<>>, parts, filename, type, data, done, "none")
  <2>1. [p EXCEPT !.at = "closing", !.held = <<>>] = [[p EXCEPT !.at = "closing"] EXCEPT !.held = <<>>]
    <3> HIDE DEF p
    <3> QED OBVIOUS
  <2>2. [Parser("delimited", held, parts, filename, type, data, done, "none") EXCEPT !.at = "closing"] =
         Parser("closing", held, parts, filename, type, data, done, "none")
    BY SetAt
  <2>3. [Parser("closing", held, parts, filename, type, data, done, "none") EXCEPT !.held = <<>>] =
         Parser("closing", <<>>, parts, filename, type, data, done, "none")
    BY SetHeld
  <2> QED BY <2>1, <2>2, <2>3, Zenon
<1>8. [p EXCEPT !.fault = "bad_multipart"]
        = Parser("delimited", held, parts, filename, type, data, done, "bad_multipart")
  BY SetFault
<1>9. ParseByte(p, byte) = DelimitedOn(held, parts, filename, type, data, done, got)
  <2> HIDE DEF p
  <2> QED BY <1>1, <1>3, <1>4, <1>5, <1>6, <1>7, <1>8, Zenon DEF DelimitedOn
<1> QED BY <1>1, <1>9

LEMMA AtClosing ==
  ASSUME NEW held, NEW parts, NEW filename, NEW type, NEW data, NEW done, NEW byte
  PROVE  ParseByte(Parser("closing", held, parts, filename, type, data, done, "none"), byte) =
           LET got == Append(held, byte) IN
           IF got = CRLF THEN Parser("closed", held, parts, filename, type, data, parts > 0, "none")
           ELSE Parser("closing", got, parts, filename, type, data, done, "none")
<1> DEFINE p == Parser("closing", held, parts, filename, type, data, done, "none")
<1>1. PICK got, some : got = Append(held, byte) /\ some = (parts > 0)
  OBVIOUS
<1>2. p.parts = parts /\ p.at = "closing" /\ p.fault = "none" /\ p.held = held
  BY DEF Parser
<1>3. ParseByte(p, byte) = IF got = CRLF THEN [p EXCEPT !.at = "closed", !.done = some]
                                         ELSE [p EXCEPT !.held = got]
  <2> HIDE DEF p
  <2>1. (p.parts > 0) = some
    BY <1>1, <1>2, Zenon
  <2>2. ParseByte(p, byte) = IF got = CRLF THEN [p EXCEPT !.at = "closed", !.done = p.parts > 0]
                                           ELSE [p EXCEPT !.held = got]
    BY <1>1, <1>2 DEF ParseByte
  <2> QED BY <2>1, <2>2, Zenon
<1>4. [p EXCEPT !.at = "closed", !.done = some] =
       Parser("closed", held, parts, filename, type, data, some, "none")
  <2>1. [p EXCEPT !.at = "closed", !.done = some] = [[p EXCEPT !.at = "closed"] EXCEPT !.done = some]
    <3> HIDE DEF p
    <3> QED OBVIOUS
  <2>2. [Parser("closing", held, parts, filename, type, data, done, "none") EXCEPT !.at = "closed"] =
         Parser("closed", held, parts, filename, type, data, done, "none")
    BY SetAt
  <2>3. [Parser("closed", held, parts, filename, type, data, done, "none") EXCEPT !.done = some] =
         Parser("closed", held, parts, filename, type, data, some, "none")
    BY SetDone
  <2> QED BY <2>1, <2>2, <2>3, Zenon
<1>5. [p EXCEPT !.held = got] = Parser("closing", got, parts, filename, type, data, done, "none")
  BY SetHeld
<1> QED BY <1>1, <1>3, <1>4, <1>5, Zenon

LEMMA AtHead ==
  ASSUME NEW held, NEW parts, NEW filename, NEW type, NEW data, NEW done, NEW byte
  PROVE  ParseByte(Parser("head", held, parts, filename, type, data, done, "none"), byte) =
           LET got == Append(held, byte) IN
           IF LastOf(got, 2) = CRLF
             THEN HeaderLine(Parser("head", held, parts, filename, type, data, done, "none"),
                             SubSeq(got, 1, Len(got) - 2))
             ELSE Parser("head", got, parts, filename, type, data, done, "none")
BY DEF ParseByte, Parser

LEMMA AtData ==
  ASSUME NEW held, NEW parts, NEW filename, NEW type, NEW data, NEW done, NEW byte
  PROVE  ParseByte(Parser("data", held, parts, filename, type, data, done, "none"), byte) =
           InData(Parser("data", held, parts, filename, type, data, done, "none"), Append(held, byte))
BY DEF ParseByte, Parser

LEMMA Stopped ==
  ASSUME NEW p, NEW byte, p.fault # "none"
  PROVE  ParseByte(p, byte) = p
BY DEF ParseByte

(* What the parser makes of a header line.                                 *)
LEMMA EmptyLine ==
  ASSUME NEW held, NEW parts, NEW filename, NEW type, NEW data, NEW done
  PROVE  HeaderLine(Parser("head", held, parts, filename, type, data, done, "none"), <<>>) =
           Parser("data", <<>>, parts, filename, type, data, done, "none")
<1> DEFINE p == Parser("head", held, parts, filename, type, data, done, "none")
<1>1. HeaderLine(p, <<>>) = [p EXCEPT !.at = "data", !.held = <<>>]
  BY DEF HeaderLine
<1>2. [p EXCEPT !.at = "data", !.held = <<>>] =
       Parser("data", <<>>, parts, filename, type, data, done, "none")
  <2>1. [p EXCEPT !.at = "data", !.held = <<>>] = [[p EXCEPT !.at = "data"] EXCEPT !.held = <<>>]
    <3> HIDE DEF p
    <3> QED OBVIOUS
  <2>2. [Parser("head", held, parts, filename, type, data, done, "none") EXCEPT !.at = "data"] =
         Parser("data", held, parts, filename, type, data, done, "none")
    BY SetAt
  <2>3. [Parser("data", held, parts, filename, type, data, done, "none") EXCEPT !.held = <<>>] =
         Parser("data", <<>>, parts, filename, type, data, done, "none")
    BY SetHeld
  <2> QED BY <2>1, <2>2, <2>3, Zenon
<1> QED BY <1>1, <1>2, Zenon

(* What each header line does.                                             *)
LEMMA LineOf ==
  ASSUME NEW held, NEW parts, NEW filename, NEW type, NEW data, NEW done, NEW symbol
  PROVE  HeaderLine(Parser("head", held, parts, filename, type, data, done, "none"), <<symbol>>) =
           IF symbol \in {"D", "N", "E"}
             THEN IF parts = 0 THEN Parser("head", <<>>, 1, symbol, type, data, done, "none")
                  ELSE Parser("head", <<>>, parts + 1, filename, type, data, done, "duplicate_file")
           ELSE IF symbol = "O" THEN Parser("head", <<>>, parts, filename, type, data, done, "unexpected_part")
           ELSE IF symbol \in TypeLines THEN Parser("head", <<>>, parts, filename, symbol, data, done, "none")
           ELSE Parser("head", <<>>, parts, filename, type, data, done, "none")
<1> DEFINE p == Parser("head", held, parts, filename, type, data, done, "none")
           q == Parser("head", <<>>, parts, filename, type, data, done, "none")
<1>1. [p EXCEPT !.held = <<>>] = q
  BY SetHeld
<1>2. p.parts = parts /\ q.parts = parts
  BY DEF Parser
<1>3. PICK line : line = <<symbol>>
  OBVIOUS
<1>4. line # <<>> /\ line[1] = symbol
  BY <1>3
<1>5. HeaderLine(p, line) =
        IF symbol \in {"D", "N", "E"}
          THEN IF parts = 0 THEN [q EXCEPT !.parts = 1, !.filename = symbol]
               ELSE [q EXCEPT !.parts = @ + 1, !.fault = "duplicate_file"]
        ELSE IF symbol = "O" THEN [q EXCEPT !.fault = "unexpected_part"]
        ELSE IF symbol \in TypeLines THEN [q EXCEPT !.type = symbol]
        ELSE q
  <2> HIDE DEF p, q
  <2> QED BY <1>1, <1>2, <1>4 DEF HeaderLine, TypeLines
<1>6. [q EXCEPT !.parts = @ + 1, !.fault = "duplicate_file"] =
        [q EXCEPT !.parts = parts + 1, !.fault = "duplicate_file"]
  <2> HIDE DEF q
  <2> QED BY <1>2
<1>7. [q EXCEPT !.parts = 1, !.filename = symbol] =
       Parser("head", <<>>, 1, symbol, type, data, done, "none")
  <2>1. [q EXCEPT !.parts = 1, !.filename = symbol] = [[q EXCEPT !.parts = 1] EXCEPT !.filename = symbol]
    <3> HIDE DEF q
    <3> QED OBVIOUS
  <2>2. [Parser("head", <<>>, parts, filename, type, data, done, "none") EXCEPT !.parts = 1] =
         Parser("head", <<>>, 1, filename, type, data, done, "none")
    BY SetParts
  <2>3. [Parser("head", <<>>, 1, filename, type, data, done, "none") EXCEPT !.filename = symbol] =
         Parser("head", <<>>, 1, symbol, type, data, done, "none")
    BY SetFilename
  <2> QED BY <2>1, <2>2, <2>3, Zenon
<1>8. [q EXCEPT !.parts = parts + 1, !.fault = "duplicate_file"] =
       Parser("head", <<>>, parts + 1, filename, type, data, done, "duplicate_file")
  <2>1. [q EXCEPT !.parts = parts + 1, !.fault = "duplicate_file"] = [[q EXCEPT !.parts = parts + 1] EXCEPT !.fault = "duplicate_file"]
    <3> HIDE DEF q
    <3> QED OBVIOUS
  <2>2. [Parser("head", <<>>, parts, filename, type, data, done, "none") EXCEPT !.parts = parts + 1] =
         Parser("head", <<>>, parts + 1, filename, type, data, done, "none")
    BY SetParts
  <2>3. [Parser("head", <<>>, parts + 1, filename, type, data, done, "none") EXCEPT !.fault = "duplicate_file"] =
         Parser("head", <<>>, parts + 1, filename, type, data, done, "duplicate_file")
    BY SetFault
  <2> QED BY <2>1, <2>2, <2>3, Zenon
<1>9. [q EXCEPT !.fault = "unexpected_part"] = Parser("head", <<>>, parts, filename, type, data, done, "unexpected_part")
  BY SetFault
<1>10. [q EXCEPT !.type = symbol] = Parser("head", <<>>, parts, filename, symbol, data, done, "none")
  BY SetType
<1>11. HeaderLine(p, <<symbol>>) = HeaderLine(p, line)
  BY <1>3
<1>12. CASE symbol \in {"D", "N", "E"} /\ parts = 0
  BY <1>5, <1>7, <1>11, <1>12, Zenon
<1>13. CASE symbol \in {"D", "N", "E"} /\ parts # 0
  BY <1>5, <1>6, <1>8, <1>11, <1>13, Zenon
<1>14. CASE symbol \notin {"D", "N", "E"} /\ symbol = "O"
  BY <1>5, <1>9, <1>11, <1>14, Zenon
<1>15. CASE symbol \notin {"D", "N", "E"} /\ symbol # "O" /\ symbol \in TypeLines
  BY <1>5, <1>10, <1>11, <1>15, Zenon
<1>16. CASE symbol \notin {"D", "N", "E"} /\ symbol # "O" /\ symbol \notin TypeLines
  BY <1>5, <1>11, <1>16, Zenon
<1> QED BY <1>12, <1>13, <1>14, <1>15, <1>16

(* The type after one line more.                                           *)
LEMMA OneTypeMore ==
  ASSUME NEW lines, NEW j \in Nat
  PROVE  /\ TypeSeen(lines, 0) = "none"
         /\ TypeSeen(lines, j + 1) = IF lines[j + 1] \in TypeLines THEN lines[j + 1] ELSE TypeSeen(lines, j)
<1> DEFINE types(k) == {i \in 1..k : lines[i] \in TypeLines}
<1>1. types(0) = {}
  OBVIOUS
<1>2. types(j + 1) = types(j) \cup (IF lines[j + 1] \in TypeLines THEN {j + 1} ELSE {})
  OBVIOUS
<1>3. ASSUME lines[j + 1] \in TypeLines PROVE Max(types(j + 1)) = j + 1
  <2>1. j + 1 \in types(j + 1) /\ \A y \in types(j + 1) : j + 1 >= y
    BY <1>3
  <2>2. \A x \in types(j + 1) : (\A y \in types(j + 1) : x >= y) => x = j + 1
    BY <2>1
  <2> QED BY <2>1, <2>2 DEF Max
<1>4. \A k \in Nat : TypeSeen(lines, k) = IF types(k) = {} THEN "none" ELSE lines[Max(types(k))]
  BY DEF TypeSeen
<1> HIDE DEF types
<1>5. j + 1 \in Nat /\ 0 \in Nat
  OBVIOUS
<1>6. types(j) = types(j + 1) => TypeSeen(lines, j + 1) = TypeSeen(lines, j)
  BY <1>4, <1>5
<1>7. CASE lines[j + 1] \in TypeLines
  <2>1. types(j + 1) # {}
    BY <1>2, <1>7
  <2> QED BY <1>1, <1>3, <1>4, <1>5, <1>7, <2>1
<1>8. CASE lines[j + 1] \notin TypeLines
  BY <1>1, <1>2, <1>4, <1>5, <1>6, <1>8
<1> QED BY <1>7, <1>8

(* One symbol takes the parser from its state after n symbols to its state *)
(* after n + 1.                                                            *)
Steps(f, n) == ParseByte(StateAt(f, n), Canonical(f)[n + 1]) = StateAt(f, n + 1)

(* The text, and the sizes it is made of.                                  *)
LEMMA Made ==
  ASSUME NEW f, WellComposed(f)
  PROVE  /\ Canonical(f) \in Seq(Symbols) /\ FormText(Canonical(f), f) /\ PartText(Canonical(f), f.lines, f.data)
         /\ Len(Canonical(f)) \in Nat /\ Len(Canonical(f)) >= DataEnd(f)
         /\ Len(Open) \in Nat /\ Len(Open) >= 2 /\ Len(Delimiter) = Len(Open) + 2
         /\ Len(f.lines) \in Nat /\ Len(f.lines) >= 1 /\ Len(f.data) \in Nat
         /\ HeadSize(f.lines) = Len(Open) + 4 + 3 * Len(f.lines) /\ HeadSize(f.lines) \in Nat
         /\ HeadSize(f.lines) >= Len(Open) + 7
         /\ DataEnd(f) = HeadSize(f.lines) + Len(f.data) /\ DataEnd(f) \in Nat
         /\ \A i \in Nat : (i >= 1 /\ i <= Len(Canonical(f))) => Canonical(f)[i] \in Symbols
<1>1. Canonical(f) \in Seq(Symbols) /\ FormText(Canonical(f), f) /\ PartText(Canonical(f), f.lines, f.data)
  BY Text DEF FormText
<1>2. Len(Canonical(f)) \in Nat /\ \A i \in 1..Len(Canonical(f)) : Canonical(f)[i] \in Symbols
  BY <1>1
<1>3. Len(Open) \in Nat /\ Len(Open) >= 2 /\ Len(Delimiter) = Len(Open) + 2
  BY Marks
<1>4. Len(f.lines) \in Nat /\ Len(f.lines) >= 1 /\ Len(f.data) \in Nat
  BY Composed
<1>5. HeadSize(f.lines) = Len(Open) + 4 + 3 * Len(f.lines) /\ HeadSize(f.lines) \in Nat
      /\ HeadSize(f.lines) >= Len(Open) + 7
      /\ DataEnd(f) = HeadSize(f.lines) + Len(f.data) /\ DataEnd(f) \in Nat
  BY Sizes DEF HeadSize
<1>6. /\ f.then = "cut" => Len(Canonical(f)) = DataEnd(f)
      /\ f.then # "cut" => Len(Canonical(f)) > DataEnd(f) + Len(Open) + 5
  BY <1>1 DEF FormText
<1>7. Len(Canonical(f)) >= DataEnd(f)
  <2>1. PICK k, e, o : k = Len(Canonical(f)) /\ e = DataEnd(f) /\ o = Len(Open)
    OBVIOUS
  <2>2. k \in Nat /\ e \in Nat /\ o \in Nat /\ (k = e \/ k > e + o + 5)
    BY <2>1, <1>2, <1>3, <1>5, <1>6
  <2>3. k >= e
    BY <2>2
  <2> QED BY <2>1, <2>3
<1>8. \A i \in Nat : (i >= 1 /\ i <= Len(Canonical(f))) => Canonical(f)[i] \in Symbols
  BY <1>2
<1> QED BY <1>1, <1>2, <1>3, <1>4, <1>5, <1>7, <1>8

(* ... in the opening delimiter.                                           *)
LEMMA StepsOpen ==
  ASSUME NEW f, WellComposed(f), NEW n \in Nat, n < Len(Open)
  PROVE  Steps(f, n)
<1>1. PICK c, o, got : c = Canonical(f) /\ o = Len(Open) /\ got = SubSeq(c, 1, n + 1)
  OBVIOUS
<1>2. c \in Seq(Symbols) /\ o \in Nat /\ o >= 2 /\ Len(c) \in Nat /\ n + 1 <= Len(c) /\ o <= Len(c)
      /\ HeadSize(f.lines) >= o + 7
  <2>1. PICK e, h : e = DataEnd(f) /\ h = HeadSize(f.lines)
    OBVIOUS
  <2>2. c \in Seq(Symbols) /\ o \in Nat /\ o >= 2 /\ Len(c) \in Nat /\ Len(c) >= e /\ e \in Nat
        /\ h \in Nat /\ h >= o + 7 /\ e = h + Len(f.data) /\ Len(f.data) \in Nat
    BY <1>1, <2>1, Made
  <2>3. n + 1 <= Len(c) /\ o <= Len(c)
    BY <2>2, <1>1
  <2> QED BY <2>1, <2>2, <2>3
<1>3. Append(SubSeq(c, 1, n), c[n + 1]) = got
  BY <1>1, <1>2, More
<1>4. StateAt(f, n) = [NewParser EXCEPT !.held = SubSeq(c, 1, n)]
  BY <1>1, <1>2 DEF StateAt
<1>5. ParseByte(StateAt(f, n), c[n + 1]) =
        IF got = Open THEN [NewParser EXCEPT !.at = "delimited", !.held = <<>>]
                      ELSE [NewParser EXCEPT !.held = got]
  BY <1>3, <1>4, AtOpen
<1>6. Len(got) = n + 1
  <2>1. n + 1 \in Nat /\ 1 <= n + 1 + 1 /\ (n + 1) - 1 + 1 = n + 1
    OBVIOUS
  <2> QED BY <2>1, <1>1, <1>2, Stretch
<1>7. CASE n + 1 < o
  <2>1. got # Open
    BY <1>1, <1>6, <1>7
  <2>2. StateAt(f, n + 1) = [NewParser EXCEPT !.held = got]
    BY <1>1, <1>7 DEF StateAt
  <2> QED BY <2>1, <2>2, <1>1, <1>5 DEF Steps
<1>8. CASE n + 1 = o
  <2>1. got = Open
    <3>1. \A i \in 1..o : c[i] = Open[i]
      BY <1>1, Made DEF PartText
    <3>2. Open \in Seq(Symbols) /\ Len(Open) <= Len(c)
      BY <1>1, <1>2, Marks
    <3> QED BY <3>1, <3>2, <1>1, <1>2, <1>8, Prefixed
  <2>2. SubSeq(c, o + 1, o) = <<>>
    <3>1. PICK i : i = o + 1
      OBVIOUS
    <3>2. i \in Nat /\ 1 <= i /\ i <= Len(c) + 1 /\ i - 1 = o
      BY <3>1, <1>2
    <3>3. SubSeq(c, i, i - 1) = <<>>
      BY <3>2, <1>2, Short
    <3> QED BY <3>1, <3>2, <3>3
  <2>3. StateAt(f, n + 1) = [NewParser EXCEPT !.at = "delimited", !.held = SubSeq(c, o + 1, o)]
    <3>1. ~(o < o) /\ o < o + 2
      BY <1>2
    <3> QED BY <3>1, <1>1, <1>8 DEF StateAt
  <2> QED BY <2>1, <2>2, <2>3, <1>1, <1>5 DEF Steps
<1> QED BY <1>1, <1>2, <1>7, <1>8

(* A parser that has had the opening delimiter.                            *)
LEMMA Fresh ==
  ASSUME NEW held
  PROVE  [NewParser EXCEPT !.at = "delimited", !.held = held] =
           Parser("delimited", held, 0, "none", "none", <<>>, FALSE, "none")
<1>1. PICK e, no : e = <<>> /\ no = FALSE
  OBVIOUS
<1>2. PICK p : p = NewParser
  OBVIOUS
<1>3. p = Parser("open", e, 0, "none", "none", e, no, "none")
  BY <1>1, <1>2 DEF NewParser, Parser
<1>4. [p EXCEPT !.at = "delimited", !.held = held] = [[p EXCEPT !.at = "delimited"] EXCEPT !.held = held]
  OBVIOUS
<1>5. [Parser("open", e, 0, "none", "none", e, no, "none") EXCEPT !.at = "delimited"] =
        Parser("delimited", e, 0, "none", "none", e, no, "none")
  BY SetAt
<1>6. [Parser("delimited", e, 0, "none", "none", e, no, "none") EXCEPT !.held = held] =
        Parser("delimited", held, 0, "none", "none", e, no, "none")
  BY SetHeld
<1>7. [p EXCEPT !.at = "delimited"] = Parser("delimited", e, 0, "none", "none", e, no, "none")
  BY <1>3, <1>5, Zenon
<1>8. [p EXCEPT !.at = "delimited", !.held = held] =
        Parser("delimited", held, 0, "none", "none", e, no, "none")
  BY <1>4, <1>6, <1>7, Zenon
<1> QED BY <1>1, <1>2, <1>8, Zenon

(* ... in the line end after the opening delimiter.                        *)
LEMMA StepsStart ==
  ASSUME NEW f, WellComposed(f), NEW n \in Nat, n >= Len(Open), n < Len(Open) + 2
  PROVE  Steps(f, n)
<1>1. PICK c, o, h, e, k : c = Canonical(f) /\ o = Len(Open) /\ h = HeadSize(f.lines) /\ e = DataEnd(f)
                           /\ k = Len(c)
  OBVIOUS
<1>2. c \in Seq(Symbols) /\ PartText(c, f.lines, f.data)
  BY <1>1, Made
<1>0. /\ o \in Nat /\ o >= 2 /\ k \in Nat /\ k >= e /\ h \in Nat /\ h >= o + 7 /\ e \in Nat /\ e >= h
      /\ n \in Nat /\ n >= o /\ n < o + 2
  <2>1. PICK d : d = Len(f.data)
    OBVIOUS
  <2>2. /\ o \in Nat /\ o >= 2 /\ k \in Nat /\ k >= e /\ h \in Nat /\ h >= o + 7 /\ e \in Nat /\ e = h + d
        /\ d \in Nat /\ n >= o /\ n < o + 2
    BY <1>1, <2>1, Made
  <2> QED BY <2>2
<1>3. c[o + 1] = "r" /\ c[o + 2] = "l"
  BY <1>1, <1>2 DEF PartText
<1>4. /\ SubSeq(c, o + 1, o) = <<>> /\ SubSeq(c, o + 1, o + 1) = <<"r">>
      /\ SubSeq(c, o + 1, o + 2) = CRLF /\ SubSeq(c, o + 3, o + 2) = <<>>
  <2>1. PICK i, j : i = o + 1 /\ j = o + 3
    OBVIOUS
  <2>2. i \in Nat /\ 1 <= i /\ i <= Len(c) + 1 /\ i <= Len(c) /\ i + 1 <= Len(c) /\ i - 1 = o /\ i + 1 = o + 2
        /\ j \in Nat /\ 1 <= j /\ j <= Len(c) + 1 /\ j - 1 = o + 2
    BY <2>1, <1>0, <1>1
  <2>3. SubSeq(c, i, i - 1) = <<>> /\ SubSeq(c, i, i) = <<c[i]>> /\ SubSeq(c, i, i + 1) = <<c[i], c[i + 1]>>
    BY <2>2, <1>2, Short
  <2>4. SubSeq(c, j, j - 1) = <<>>
    BY <2>2, <1>2, Short
  <2> QED BY <2>1, <2>2, <2>3, <2>4, <1>3 DEF CRLF
<1>5. StateAt(f, n) = Parser("delimited", SubSeq(c, o + 1, n), 0, "none", "none", <<>>, FALSE, "none")
  <2>1. ~(n < o) /\ n < o + 2
    BY <1>0
  <2>2. StateAt(f, n) = [NewParser EXCEPT !.at = "delimited", !.held = SubSeq(c, o + 1, n)]
    BY <2>1, <1>1 DEF StateAt
  <2> QED BY <2>2, Fresh
<1>6. PICK got : got = Append(SubSeq(c, o + 1, n), c[n + 1])
  OBVIOUS
<1>7. got = SubSeq(c, o + 1, n + 1)
  <2>1. PICK i : i = o + 1
    OBVIOUS
  <2>2. i \in Nat /\ 1 <= i /\ i <= n + 1 /\ n < Len(c)
    BY <2>1, <1>0, <1>1
  <2> QED BY <2>1, <2>2, <1>2, <1>6, More
<1>8. ParseByte(StateAt(f, n), c[n + 1]) =
        IF Len(got) < 2 THEN Parser("delimited", got, 0, "none", "none", <<>>, FALSE, "none")
        ELSE IF got = CRLF THEN Parser("head", <<>>, 0, "none", "none", <<>>, 0 > 0, "none")
        ELSE IF got = <<"-", "-">> THEN Parser("closing", <<>>, 0, "none", "none", <<>>, FALSE, "none")
        ELSE Parser("delimited", SubSeq(c, o + 1, n), 0, "none", "none", <<>>, FALSE, "bad_multipart")
  <2>1. PICK held, byte, zero, type, data, done :
          /\ held = SubSeq(c, o + 1, n) /\ byte = c[n + 1] /\ zero = 0 /\ type = "none" /\ data = <<>> /\ done = FALSE
    OBVIOUS
  <2>2. got = Append(held, byte)
    BY <2>1, <1>6
  <2>3. ParseByte(Parser("delimited", held, zero, type, type, data, done, "none"), byte) =
          DelimitedOn(held, zero, type, type, data, done, got)
    BY <2>2, AtDelimited
  <2> QED BY <2>1, <2>3, <1>5, Zenon DEF DelimitedOn
<1>9. CASE n = o
  <2>1. got = <<"r">>
    BY <1>4, <1>7, <1>9
  <2>2. Len(got) < 2
    BY <2>1
  <2>3. StateAt(f, n + 1) = [NewParser EXCEPT !.at = "delimited", !.held = SubSeq(c, o + 1, o + 1)]
    <3>1. ~(o + 1 < o) /\ o + 1 < o + 2
      BY <1>0
    <3> QED BY <3>1, <1>1, <1>9 DEF StateAt
  <2>4. StateAt(f, n + 1) = Parser("delimited", got, 0, "none", "none", <<>>, FALSE, "none")
    BY <2>1, <2>3, <1>4, Fresh
  <2> QED BY <2>2, <2>4, <1>1, <1>8 DEF Steps
<1>10. CASE n = o + 1
  <2>1. got = CRLF
    <3>1. n + 1 = o + 2
      BY <1>0, <1>10
    <3> QED BY <3>1, <1>4, <1>7
  <2>2. Len(got) = 2
    BY <2>1, Marks
  <2>3. ParseByte(StateAt(f, n), c[n + 1]) = Parser("head", <<>>, 0, "none", "none", <<>>, FALSE, "none")
    <3>1. (0 > 0) = FALSE /\ ~(Len(got) < 2)
      BY <2>2
    <3> QED BY <3>1, <2>1, <1>8, Zenon
  <2>4. StateAt(f, n + 1) = Heading(f, Line(o + 2), SubSeq(c, o + 3 * Line(o + 2) + 3, o + 2))
    <3>1. ~(o + 2 < o) /\ ~(o + 2 < o + 2) /\ ~(o + 2 >= o + 5) /\ o + 2 < h /\ n + 1 = o + 2
      BY <1>0, <1>10
    <3> QED BY <3>1, <1>1 DEF StateAt
  <2>5. Line(o + 2) = 0
    <3>1. (o + 2 - o - 2) \div 3 = 0
      <4>1. o + 2 - o - 2 = 0
        BY <1>0
      <4> QED BY <4>1
    <3> QED BY <3>1, <1>1 DEF Line
  <2>6. o + 3 * 0 + 3 = o + 3
    BY <1>0
  <2>7. TypeSeen(f.lines, 0) = "none"
    BY OneTypeMore
  <2>8. StateAt(f, n + 1) = Parser("head", <<>>, 0, "none", "none", <<>>, FALSE, "none")
    BY <2>4, <2>5, <2>6, <2>7, <1>4 DEF Heading
  <2> QED BY <2>3, <2>8, <1>1 DEF Steps
<1> QED BY <1>0, <1>9, <1>10

(* The last two symbols, which end a header line.                          *)
LEMMA LastTwo ==
  ASSUME NEW a \in Symbols, NEW b \in Symbols, NEW c \in Symbols
  PROVE  /\ LastOf(<<a>>, 2) = <<a>>
         /\ LastOf(<<a, b>>, 2) = <<a, b>> /\ SubSeq(<<a, b>>, 1, Len(<<a, b>>) - 2) = <<>>
         /\ LastOf(<<a, b, c>>, 2) = <<b, c>> /\ SubSeq(<<a, b, c>>, 1, Len(<<a, b, c>>) - 2) = <<a>>
<1>1. PICK x, y, z : x = <<a>> /\ y = <<a, b>> /\ z = <<a, b, c>>
  OBVIOUS
<1>2. /\ x \in Seq(Symbols) /\ Len(x) = 1 
      /\ y \in Seq(Symbols) /\ Len(y) = 2 /\ y[1] = a /\ y[2] = b
      /\ z \in Seq(Symbols) /\ Len(z) = 3 /\ z[1] = a /\ z[2] = b /\ z[3] = c
  BY <1>1
<1>3. LastOf(x, 2) = x /\ LastOf(y, 2) = y
  BY <1>2, Lasts
<1>4. LastOf(z, 2) = SubSeq(z, Len(z) - 2 + 1, Len(z))
  <2>1. z \in Seq(Symbols) /\ 2 \in Nat /\ ~(2 >= Len(z))
    BY <1>2
  <2> QED BY <2>1, Lasts
<1>5. SubSeq(z, 2, 2 + 1) = <<z[2], z[2 + 1]>> /\ SubSeq(z, 1, 1) = <<z[1]>> /\ SubSeq(y, 1, 1 - 1) = <<>>
  <2>1. PICK i, j : i = 2 /\ j = 1
    OBVIOUS
  <2>2. i \in Nat /\ 1 <= i /\ i <= Len(z) + 1 /\ i + 1 <= Len(z)
        /\ j \in Nat /\ 1 <= j /\ j <= Len(z) + 1 /\ j <= Len(z) /\ j <= Len(y) + 1
    BY <2>1, <1>2
  <2>3. SubSeq(z, i, i + 1) = <<z[i], z[i + 1]>> /\ SubSeq(z, j, j) = <<z[j]>> /\ SubSeq(y, j, j - 1) = <<>>
    BY <2>2, <1>2, Short
  <2> QED BY <2>1, <2>3
<1>6. 2 + 1 = 3 /\ 1 - 1 = 0 /\ 3 - 2 + 1 = 2 /\ 3 - 2 = 1 /\ 2 - 2 = 0
  OBVIOUS
<1>7. LastOf(z, 2) = <<b, c>> /\ SubSeq(z, 1, Len(z) - 2) = <<a>> /\ SubSeq(y, 1, Len(y) - 2) = <<>>
  BY <1>2, <1>4, <1>5, <1>6
<1> QED BY <1>1, <1>3, <1>7

(* A step inside the first part's head.                                    *)
LEMMA StepsHead ==
  ASSUME NEW f, WellComposed(f), NEW n \in Nat, n >= Len(Open) + 2, n < HeadSize(f.lines),
         ~(f.lines[1] = "O" /\ n >= Len(Open) + 5)
  PROVE  Steps(f, n)
<1>1. PICK c, o, h, e, k, m : c = Canonical(f) /\ o = Len(Open) /\ h = HeadSize(f.lines) /\ e = DataEnd(f)
                              /\ k = Len(c) /\ m = Len(f.lines)
  OBVIOUS
<1>2. c \in Seq(Symbols) /\ PartText(c, f.lines, f.data)
  BY <1>1, Made
<1>0. /\ o \in Nat /\ o >= 2 /\ k \in Nat /\ k >= e /\ m \in Nat /\ m >= 1 /\ h = o + 4 + 3 * m /\ e \in Nat /\ e >= h
      /\ n \in Nat /\ n >= o + 2 /\ n < h /\ h \in Nat
  <2>1. PICK d : d = Len(f.data)
    OBVIOUS
  <2>2. /\ o \in Nat /\ o >= 2 /\ k \in Nat /\ k >= e /\ h \in Nat /\ h = o + 4 + 3 * m /\ e \in Nat /\ e = h + d
        /\ d \in Nat /\ n >= o + 2 /\ n < h /\ m \in Nat /\ m >= 1
    BY <1>1, <2>1, Made
  <2> QED BY <2>2
<1>3. PICK t, j, i : t = n - o - 2 /\ j = t \div 3 /\ i = o + 3 * j + 3
  OBVIOUS
<1>4. /\ t \in Nat /\ t <= 3 * m + 1 /\ j \in Nat /\ t \in {3 * j, 3 * j + 1, 3 * j + 2}
  BY <1>0, <1>3
<1>5. /\ j <= m /\ (j = m => t \in {3 * j, 3 * j + 1})
      /\ i \in Nat /\ i >= 1 /\ n \in {i - 1, i, i + 1} /\ i + 1 <= h /\ (j < m => i + 2 <= h - 2)
      /\ (j = m => i = h - 1 /\ n \in {i - 1, i})
  BY <1>0, <1>3, <1>4
<1>51. /\ Len(c) = k /\ k \in Nat /\ h \in Nat /\ h <= k /\ n < h /\ n \in Nat
  <2>1. k \in Nat /\ h \in Nat /\ h <= k /\ n < h /\ n \in Nat
    BY <1>0
  <2>2. Len(c) = k
    BY <1>1
  <2> QED BY <2>1, <2>2
<1>52. /\ i \in Nat /\ i >= 1 /\ n \in {i - 1, i, i + 1} /\ i + 1 <= h /\ (j < m => i + 2 <= h)
       /\ 1 <= i /\ i <= n + 1
  BY <1>5, <1>51
<1>6. Line(n) = j /\ o + 3 * Line(n) + 3 = i
  BY <1>1, <1>3 DEF Line
<1>7. StateAt(f, n) = Heading(f, j, SubSeq(c, i, n))
  <2>1. ~(n < o) /\ ~(n < o + 2) /\ n < h
    BY <1>0
  <2>2. ~(f.lines[1] = "O" /\ n >= o + 5)
    BY <1>1
  <2>3. StateAt(f, n) = Heading(f, Line(n), SubSeq(c, o + 3 * Line(n) + 3, n))
    BY <2>1, <2>2, <1>1 DEF StateAt
  <2> QED BY <2>3, <1>6
<1>8. PICK parts, filename, type, no, empty :
        /\ parts = (IF j = 0 THEN 0 ELSE 1) /\ filename = (IF j = 0 THEN "none" ELSE f.lines[1])
        /\ type = TypeSeen(f.lines, j) /\ no = FALSE /\ empty = <<>>
  OBVIOUS
<1>9. PICK held, got : held = SubSeq(c, i, n) /\ got = Append(SubSeq(c, i, n), c[n + 1])
  OBVIOUS
<1>10. got = SubSeq(c, i, n + 1)
  <2>1. i \in Nat /\ 1 <= i /\ i <= n + 1 /\ n < Len(c)
    BY <1>51, <1>52
  <2> QED BY <2>1, <1>2, <1>9, More
<1> DEFINE p == Parser("head", held, parts, filename, type, empty, no, "none")
<1>11. StateAt(f, n) = p
  BY <1>7, <1>8, <1>9 DEF Heading
<1>12. ParseByte(StateAt(f, n), c[n + 1]) =
         IF LastOf(got, 2) = CRLF THEN HeaderLine(p, SubSeq(got, 1, Len(got) - 2))
         ELSE Parser("head", got, parts, filename, type, empty, no, "none")
  <2>1. ParseByte(p, c[n + 1]) =
          LET g == Append(held, c[n + 1]) IN
          IF LastOf(g, 2) = CRLF THEN HeaderLine(p, SubSeq(g, 1, Len(g) - 2))
          ELSE Parser("head", g, parts, filename, type, empty, no, "none")
    BY AtHead
  <2> QED BY <2>1, <1>9, <1>11
<1> HIDE DEF p
<1>13. i <= Len(c) /\ i + 1 <= Len(c) /\ (j < m => i + 2 <= Len(c)) /\ i <= Len(c) + 1
  BY <1>51, <1>52
<1>14. /\ SubSeq(c, i, i) = <<c[i]>> /\ SubSeq(c, i, i + 1) = <<c[i], c[i + 1]>>
       /\ j < m => SubSeq(c, i, i + 2) = <<c[i], c[i + 1], c[i + 2]>>
  BY <1>2, <1>5, <1>13, Short
<1>15. /\ c[i] \in Symbols /\ c[i + 1] \in Symbols /\ (j < m => c[i + 2] \in Symbols)
  <2>1. \A x \in 1..Len(c) : c[x] \in Symbols
    BY <1>2
  <2>2. i \in 1..Len(c) /\ i + 1 \in 1..Len(c) /\ (j < m => i + 2 \in 1..Len(c))
    BY <1>13, <1>51, <1>52
  <2> QED BY <2>1, <2>2
<1>16. /\ j < m => c[i] = f.lines[j + 1] /\ c[i + 1] = "r" /\ c[i + 2] = "l"
       /\ j = m => c[i] = "r" /\ c[i + 1] = "l"
  <2>1. ASSUME j < m PROVE c[i] = f.lines[j + 1] /\ c[i + 1] = "r" /\ c[i + 2] = "l"
    <3>1. j + 1 \in 1..m /\ i = o + 3 * (j + 1) /\ i + 1 = o + 3 * (j + 1) + 1 /\ i + 2 = o + 3 * (j + 1) + 2
      BY <2>1, <1>0, <1>3, <1>4
    <3>2. \A x \in 1..m : c[o + 3 * x] = f.lines[x] /\ c[o + 3 * x + 1] = "r" /\ c[o + 3 * x + 2] = "l"
      BY <1>1, <1>2 DEF PartText
    <3> QED BY <3>1, <3>2
  <2>2. ASSUME j = m PROVE c[i] = "r" /\ c[i + 1] = "l"
    <3>1. i = h - 1 /\ i + 1 = h
      BY <2>2, <1>0, <1>5
    <3>2. c[h - 1] = "r" /\ c[h] = "l"
      BY <1>1, <1>2 DEF PartText
    <3> QED BY <3>1, <3>2
  <2> QED BY <2>1, <2>2
<1>17. j < m => f.lines[j + 1] \notin {"r", "l", "-"}
  <2>1. j < m => j + 1 \in 1..m
    BY <1>0, <1>4
  <2> QED BY <2>1, <1>1, Composed
(* Inside a line: it is held.                                              *)
<1>18. ASSUME n + 1 \in {i, i + 1}, n + 1 < h, LastOf(got, 2) # CRLF PROVE Steps(f, n)
  <2>1. Line(n + 1) = j
    <3>1. (n + 1) - o - 2 \in {3 * j + 1, 3 * j + 2}
      BY <1>18, <1>0, <1>3, <1>4
    <3>2. ((n + 1) - o - 2) \div 3 = j
      BY <3>1, <1>4
    <3> QED BY <3>2, <1>1 DEF Line
  <2>2. ~(n + 1 < o) /\ ~(n + 1 < o + 2) /\ n + 1 < h
    BY <1>18, <1>0
  <2>3. ~(f.lines[1] = "O" /\ n + 1 >= o + 5)
    <3>1. ~(f.lines[1] = "O" /\ n >= o + 5)
      BY <1>1
    <3>2. n + 1 # o + 5
      BY <1>18, <1>0, <1>3, <1>4
    <3>3. n + 1 >= o + 5 => n >= o + 5
      BY <3>2, <1>0
    <3> QED BY <3>1, <3>3
  <2>4. StateAt(f, n + 1) = Heading(f, Line(n + 1), SubSeq(c, o + 3 * Line(n + 1) + 3, n + 1))
    BY <2>2, <2>3, <1>1 DEF StateAt
  <2>5. StateAt(f, n + 1) = Parser("head", got, parts, filename, type, empty, no, "none")
    BY <2>1, <2>4, <1>3, <1>8, <1>10 DEF Heading
  <2> QED BY <2>5, <1>1, <1>12, <1>18 DEF Steps
<1>19. CASE n = i - 1
  <2>1. got = <<c[i]>> /\ n + 1 = i
    BY <1>5, <1>10, <1>14, <1>19
  <2>2. LastOf(got, 2) # CRLF
    <3>1. PICK a : a = c[i]
      OBVIOUS
    <3>2. LastOf(<<a>>, 2) = <<a>>
      BY <3>1, <1>15, LastTwo
    <3>3. <<a>> # CRLF
      BY DEF CRLF
    <3> QED BY <2>1, <3>1, <3>2, <3>3
  <2>3. n + 1 < h
    BY <1>0, <1>5, <2>1
  <2> QED BY <2>1, <2>2, <2>3, <1>18
<1>20. CASE n = i /\ j < m
  <2>1. got = <<c[i], c[i + 1]>> /\ n + 1 = i + 1
    BY <1>10, <1>14, <1>20
  <2>2. LastOf(got, 2) # CRLF
    <3>1. PICK a, b : a = c[i] /\ b = c[i + 1]
      OBVIOUS
    <3>2. LastOf(<<a, b>>, 2) = <<a, b>>
      BY <3>1, <1>15, LastTwo
    <3>3. a # "r"
      BY <3>1, <1>16, <1>17, <1>20
    <3>4. <<a, b>> # CRLF
      BY <3>3 DEF CRLF
    <3> QED BY <2>1, <3>1, <3>2, <3>4
  <2>3. n + 1 < h
    BY <1>0, <1>5, <1>20, <2>1
  <2> QED BY <2>1, <2>2, <2>3, <1>18
<1>21. CASE n = i /\ j = m
  <2>1. got = CRLF /\ n + 1 = h
    <3>1. got = <<c[i], c[i + 1]>> /\ n + 1 = h
      BY <1>0, <1>5, <1>10, <1>14, <1>21
    <3> QED BY <3>1, <1>16, <1>21 DEF CRLF
  <2>2. LastOf(got, 2) = CRLF /\ SubSeq(got, 1, Len(got) - 2) = <<>>
    <3>1. "r" \in Symbols /\ "l" \in Symbols
      BY DEF Symbols
    <3> QED BY <2>1, <3>1, LastTwo DEF CRLF
  <2>3. ParseByte(StateAt(f, n), c[n + 1]) = Parser("data", <<>>, parts, filename, type, empty, no, "none")
    <3>1. HeaderLine(p, <<>>) = Parser("data", <<>>, parts, filename, type, empty, no, "none")
      BY EmptyLine DEF p
    <3> QED BY <3>1, <2>2, <1>12
  <2>4. Hold(f, h) = 0
    <3>1. {x \in 0..Len(Delimiter) : /\ x <= h - HeadSize(f.lines)
                                     /\ \A y \in 1..x : Canonical(f)[h - x + y] = Delimiter[y]} = {0}
      <4>1. h - HeadSize(f.lines) = 0 /\ Len(Delimiter) \in Nat
        <5>1. h - h = 0
          BY <1>0
        <5>2. Len(Delimiter) \in Nat
          BY Made
        <5> QED BY <5>1, <5>2, <1>1
      <4> QED BY <4>1
    <3>2. Max({0}) = 0
      BY DEF Max
    <3> QED BY <3>1, <3>2 DEF Hold
  <2>5. SubSeq(c, h + 1, h) = <<>>
    <3>1. PICK x : x = h + 1
      OBVIOUS
    <3>2. x \in Nat /\ 1 <= x /\ x <= Len(c) + 1 /\ x - 1 = h
      BY <3>1, <1>51
    <3>3. SubSeq(c, x, x - 1) = <<>>
      BY <3>2, <1>2, Short
    <3> QED BY <3>1, <3>2, <3>3
  <2>6. StateAt(f, h) = DataState(f, h)
    <3>1. ~(h < o) /\ ~(h < o + 2) /\ ~(h < h) /\ n >= o + 5 /\ h >= o + 5
      <4>1. 3 * m >= 3
        BY <1>0
      <4> QED BY <4>1, <1>0, <2>1
    <3>2. f.lines[1] # "O"
      BY <3>1, <1>1
    <3>3. f.then = "cut" \/ h < DataEnd(f) + Len(Delimiter)
      <4>1. Len(Delimiter) \in Nat /\ Len(Delimiter) >= 2
        BY <1>0, <1>1, Marks
      <4>2. h < e + Len(Delimiter)
        BY <4>1, <1>0
      <4> QED BY <4>2, <1>1
    <3> QED BY <3>1, <3>2, <3>3, <1>1 DEF StateAt
  <2>7. h - 0 + 1 = h + 1 /\ h - 0 = h
    BY <1>0
  <2>8. DataState(f, h) = Parser("data", <<>>, 1, f.lines[1], TypeSeen(f.lines, m), <<>>, FALSE, "none")
    BY <2>4, <2>5, <2>7, <1>1 DEF DataState
  <2>9. parts = 1 /\ filename = f.lines[1] /\ type = TypeSeen(f.lines, m)
    BY <1>0, <1>8, <1>21
  <2> QED BY <2>1, <2>3, <2>6, <2>8, <2>9, <1>1, <1>8 DEF Steps
<1>22. CASE n = i + 1
  <2>0. j < m
    <3>1. j = m => n # i + 1
      BY <1>5, <1>52
    <3> QED BY <3>1, <1>0, <1>4, <1>5, <1>22
  <2>1. got = <<f.lines[j + 1], "r", "l">>
    <3>1. n + 1 = i + 2
      BY <1>5, <1>22
    <3> QED BY <3>1, <2>0, <1>10, <1>14, <1>16
  <2>2. PICK symbol : symbol = f.lines[j + 1]
    OBVIOUS
  <2>3. LastOf(got, 2) = CRLF /\ SubSeq(got, 1, Len(got) - 2) = <<symbol>>
    <3>1. symbol \in Symbols /\ "r" \in Symbols /\ "l" \in Symbols
      BY <2>0, <2>2, <1>15, <1>16 DEF Symbols
    <3>2. PICK r, l : r = "r" /\ l = "l"
      OBVIOUS
    <3>3. LastOf(<<symbol, r, l>>, 2) = <<r, l>>
          /\ SubSeq(<<symbol, r, l>>, 1, Len(<<symbol, r, l>>) - 2) = <<symbol>>
      <4>1. symbol \in Symbols /\ r \in Symbols /\ l \in Symbols
        BY <3>1, <3>2
      <4> QED BY <4>1, LastTwo
    <3> QED BY <2>1, <2>2, <3>2, <3>3 DEF CRLF
  <2>4. ParseByte(StateAt(f, n), c[n + 1]) = HeaderLine(p, <<symbol>>)
    BY <2>3, <1>12
  <2>5. HeaderLine(p, <<symbol>>) =
           IF symbol \in {"D", "N", "E"}
             THEN IF parts = 0 THEN Parser("head", <<>>, 1, symbol, type, empty, no, "none")
                  ELSE Parser("head", <<>>, parts + 1, filename, type, empty, no, "duplicate_file")
           ELSE IF symbol = "O" THEN Parser("head", <<>>, parts, filename, type, empty, no, "unexpected_part")
           ELSE IF symbol \in TypeLines THEN Parser("head", <<>>, parts, filename, symbol, empty, no, "none")
           ELSE Parser("head", <<>>, parts, filename, type, empty, no, "none")
    BY LineOf DEF p
  <2>6. /\ TypeSeen(f.lines, j + 1) = IF symbol \in TypeLines THEN symbol ELSE type
        /\ TypeSeen(f.lines, 0) = "none"
    BY <2>2, <1>4, <1>8, OneTypeMore
  <2>7. n + 1 = o + 3 * (j + 1) + 2 /\ n + 1 < h /\ ~(n + 1 < o) /\ ~(n + 1 < o + 2)
    BY <2>0, <1>0, <1>3, <1>5, <1>22
  <2>8. Line(n + 1) = j + 1
    <3>1. (n + 1) - o - 2 = 3 * (j + 1)
      BY <2>7, <1>0, <1>4
    <3>2. ((n + 1) - o - 2) \div 3 = j + 1
      BY <3>1, <1>4
    <3> QED BY <3>2, <1>1 DEF Line
  <2>9. CASE j = 0 /\ symbol = "O"
    <3>1. n + 1 >= o + 5
      BY <2>7, <2>9, <1>0
    <3>2. StateAt(f, n + 1) = Refused
      BY <3>1, <2>2, <2>7, <2>9, <1>1 DEF StateAt
    <3>3. parts = 0 /\ filename = "none" /\ type = "none"
      BY <2>6, <2>9, <1>8
    <3>4. HeaderLine(p, <<symbol>>) = Parser("head", <<>>, parts, filename, type, empty, no, "unexpected_part")
      BY <2>5, <2>9
    <3> QED BY <3>2, <3>3, <3>4, <2>4, <1>1, <1>8 DEF Refused, Steps
  <2>10. ASSUME ~(j = 0 /\ symbol = "O") PROVE Steps(f, n)
    <3>1. f.lines[1] # "O"
      <4>1. CASE j = 0
        BY <4>1, <2>2, <2>10
      <4>2. CASE j > 0
        <5>1. n >= o + 5
          BY <4>2, <2>7, <1>0, <1>4
        <5> QED BY <5>1, <1>1
      <4> QED BY <4>1, <4>2, <1>4
    <3>2. StateAt(f, n + 1) = Heading(f, j + 1, SubSeq(c, o + 3 * (j + 1) + 3, n + 1))
      BY <3>1, <2>7, <2>8, <1>1 DEF StateAt
    <3>3. SubSeq(c, o + 3 * (j + 1) + 3, n + 1) = <<>>
      <4>1. PICK x : x = o + 3 * (j + 1) + 3
        OBVIOUS
      <4>2. x \in Nat /\ 1 <= x /\ x <= Len(c) + 1 /\ x - 1 = n + 1
        <5>1. x = n + 2
          BY <4>1, <2>7, <1>0, <1>4
        <5> QED BY <5>1, <1>51
      <4>3. SubSeq(c, x, x - 1) = <<>>
        BY <4>2, <1>2, Short
      <4> QED BY <4>1, <4>2, <4>3
    <3>4. j + 1 # 0
      BY <1>4
    <3>5. StateAt(f, n + 1) = Parser("head", <<>>, 1, f.lines[1], TypeSeen(f.lines, j + 1), <<>>, FALSE, "none")
      BY <3>2, <3>3, <3>4 DEF Heading
    <3>6. CASE j = 0
      <4>1. symbol \in {"D", "N", "E"} /\ symbol \notin TypeLines
        <5>1. symbol \in Dispositions
          BY <2>2, <3>6, Composed
        <5> QED BY <5>1, <2>10, <3>6 DEF Dispositions, TypeLines
      <4>2. parts = 0 /\ symbol = f.lines[1]
        BY <2>2, <3>6, <1>8
      <4> QED BY <4>1, <4>2, <2>4, <2>5, <2>6, <3>5, <1>1, <1>8 DEF Steps
    <3>7. CASE j > 0
      <4>1. symbol \in TypeLines \cup {"A", "w", "H"}
        <5>1. j + 1 \in 2..m
          BY <3>7, <2>0, <1>0, <1>4
        <5> QED BY <5>1, <2>2, <1>1, Composed
      <4>2. symbol \notin {"D", "N", "E"} /\ symbol # "O"
        BY <4>1 DEF TypeLines
      <4>3. parts = 1 /\ filename = f.lines[1]
        BY <3>7, <1>8
      <4> QED BY <4>2, <4>3, <2>4, <2>5, <2>6, <3>5, <1>1, <1>8 DEF Steps
    <3> QED BY <3>6, <3>7, <1>4
  <2> QED BY <2>9, <2>10
<1>23. j < m \/ j = m
  BY <1>0, <1>4, <1>5
<1> QED BY <1>52, <1>19, <1>20, <1>21, <1>22, <1>23

(* The greatest of a bounded set of numbers.                               *)
LEMMA MostIsIn ==
  ASSUME NEW S \in SUBSET Nat, S # {}, NEW bound \in Nat, \A x \in S : x <= bound
  PROVE  Max(S) \in S /\ \A y \in S : y <= Max(S)
<1> DEFINE T == {bound - x : x \in S}
<1>1. T \in SUBSET Nat /\ T # {}
  <2>1. \A x \in S : x \in Nat /\ bound - x \in Nat
    OBVIOUS
  <2> QED BY <2>1
<1>2. Min(T) \in T /\ \A y \in T : Min(T) <= y
  <2> HIDE DEF T
  <2> QED BY <1>1, LeastIsIn
<1>3. PICK x \in S : Min(T) = bound - x
  BY <1>2
<1>4. \A y \in S : y <= x
  <2> SUFFICES ASSUME NEW y \in S PROVE y <= x
    OBVIOUS
  <2>1. bound - x <= bound - y /\ x \in Nat /\ y \in Nat
    BY <1>2, <1>3
  <2> QED BY <2>1
<1> QED BY <1>4 DEF Max

(* The last symbols of a stretch.                                          *)
LEMMA LastStretch ==
  ASSUME NEW S, NEW s \in Seq(S), NEW i \in Nat, NEW n \in Nat, 1 <= i, i <= n + 1, n <= Len(s),
         NEW x \in Nat, x <= n - i + 1
  PROVE  LastOf(SubSeq(s, i, n), x) = SubSeq(s, n - x + 1, n)
<1>1. PICK t : t = SubSeq(s, i, n)
  OBVIOUS
<1>2. t \in Seq(S) /\ Len(t) = n - i + 1
  BY <1>1, Stretch
<1>3. LastOf(t, x) = IF x >= Len(t) THEN t ELSE SubSeq(t, Len(t) - x + 1, Len(t))
  BY <1>2, Lasts
<1>4. CASE x = n - i + 1
  <2>1. n - x + 1 = i
    BY <1>4
  <2> QED BY <2>1, <1>1, <1>2, <1>3, <1>4
<1>5. CASE x < n - i + 1
  <2>1. PICK l, a : l = n - i + 1 /\ a = l - x + 1
    OBVIOUS
  <2>2. l \in Nat /\ a \in Nat /\ 1 <= a /\ a <= l + 1 /\ l <= n - i + 1 /\ i + a - 1 = n - x + 1 /\ i + l - 1 = n
        /\ ~(x >= l)
    BY <2>1, <1>5
  <2>3. LastOf(t, x) = SubSeq(t, a, l)
    BY <2>1, <2>2, <1>2, <1>3
  <2>4. SubSeq(SubSeq(s, i, n), a, l) = SubSeq(s, i + a - 1, i + l - 1)
    BY <2>2, StretchWithin
  <2> QED BY <2>2, <2>3, <2>4, <1>1
<1> QED BY <1>1, <1>4, <1>5

(* What may be held back of the data: a suffix of it that begins a         *)
(* delimiter; Hold is the longest.                                         *)
Held(f, n, x) ==
  /\ x \in Nat /\ x <= Len(Delimiter) /\ x <= n - HeadSize(f.lines)
  /\ \A j \in 1..x : Canonical(f)[n - x + j] = Delimiter[j]

LEMMA Holds ==
  ASSUME NEW f, WellComposed(f), NEW n \in Nat, n >= HeadSize(f.lines)
  PROVE  Held(f, n, Hold(f, n)) /\ \A x : Held(f, n, x) => x <= Hold(f, n)
<1> DEFINE S == {x \in 0..Len(Delimiter) : /\ x <= n - HeadSize(f.lines)
                                           /\ \A j \in 1..x : Canonical(f)[n - x + j] = Delimiter[j]}
<1>1. Len(Delimiter) \in Nat /\ HeadSize(f.lines) \in Nat
  <2>1. Len(Open) \in Nat /\ Len(Delimiter) = Len(Open) + 2 /\ HeadSize(f.lines) \in Nat
    BY Made
  <2> QED BY <2>1
<1>2. \A x : x \in S <=> Held(f, n, x)
  BY <1>1 DEF Held
<1>3. S \in SUBSET Nat /\ \A x \in S : x <= Len(Delimiter)
  BY <1>1
<1>4. 0 \in S
  BY <1>1
<1>5. Hold(f, n) = Max(S)
  BY DEF Hold
<1> HIDE DEF S
<1>6. Max(S) \in S /\ \A y \in S : y <= Max(S)
  BY <1>1, <1>3, <1>4, MostIsIn
<1> QED BY <1>2, <1>5, <1>6

(* What is held back at one symbol, and at the next.                       *)
LEMMA HoldNext ==
  ASSUME NEW f, WellComposed(f), NEW n \in Nat, n >= HeadSize(f.lines)
  PROVE  /\ Hold(f, n) \in Nat /\ Hold(f, n + 1) \in Nat /\ Hold(f, n + 1) <= Hold(f, n) + 1
         /\ Hold(f, n) <= n - HeadSize(f.lines) /\ Hold(f, n) <= Len(Delimiter)
         /\ Hold(f, n + 1) <= (n + 1) - HeadSize(f.lines) /\ Hold(f, n + 1) <= Len(Delimiter)
<1>1. Held(f, n, Hold(f, n)) /\ \A x : Held(f, n, x) => x <= Hold(f, n)
  BY Holds
<1>2. HeadSize(f.lines) \in Nat /\ n + 1 \in Nat /\ n + 1 >= HeadSize(f.lines)
  <2>1. HeadSize(f.lines) \in Nat
    BY Made
  <2> QED BY <2>1
<1>3. Held(f, n + 1, Hold(f, n + 1))
  BY <1>2, Holds
<1>4. PICK y, x, h : y = Hold(f, n + 1) /\ x = y - 1 /\ h = HeadSize(f.lines)
  OBVIOUS
<1>5. y \in Nat /\ y <= Len(Delimiter) /\ y <= n + 1 - h /\ h \in Nat
      /\ \A j \in 1..y : Canonical(f)[n + 1 - y + j] = Delimiter[j]
  <2>1. PICK l : l = n + 1
    OBVIOUS
  <2>2. Held(f, l, y) /\ h \in Nat
    BY <2>1, <1>2, <1>3, <1>4
  <2>3. y \in Nat /\ y <= Len(Delimiter) /\ y <= l - h /\ \A j \in 1..y : Canonical(f)[l - y + j] = Delimiter[j]
    BY <2>2, <1>4 DEF Held
  <2> QED BY <2>1, <2>2, <2>3
<1>6. y # 0 => Held(f, n, x)
  <2> SUFFICES ASSUME y # 0 PROVE Held(f, n, x)
    OBVIOUS
  <2>1. x \in Nat /\ x <= Len(Delimiter) /\ x <= n - h
    <3>1. Len(Delimiter) \in Nat
      <4>1. Len(Open) \in Nat /\ Len(Delimiter) = Len(Open) + 2
        BY Made
      <4> QED BY <4>1
    <3> QED BY <3>1, <1>4, <1>5
  <2>2. \A j \in 1..x : j \in 1..y /\ n - x + j = n + 1 - y + j
    <3>1. x = y - 1 /\ y \in Nat /\ x \in Nat
      BY <1>4, <1>5, <2>1
    <3> QED BY <3>1
  <2> QED BY <2>1, <2>2, <1>4, <1>5 DEF Held
<1>7. Hold(f, n) \in Nat /\ Hold(f, n) <= n - h /\ Hold(f, n) <= Len(Delimiter)
  BY <1>1, <1>4 DEF Held
<1>8. y <= Hold(f, n) + 1
  <2>1. y # 0 => x <= Hold(f, n)
    BY <1>1, <1>6
  <2> QED BY <2>1, <1>4, <1>5, <1>7
<1> QED BY <1>4, <1>5, <1>7, <1>8

(* InData finds what is held back.                                         *)
LEMMA HoldFound ==
  ASSUME NEW f, WellComposed(f), NEW n \in Nat, n >= HeadSize(f.lines), n < Len(Canonical(f)),
         NEW got, got = SubSeq(Canonical(f), n - Hold(f, n) + 1, n + 1)
  PROVE  Max({x \in 0..Min({Len(got), Len(Delimiter)}) : LastOf(got, x) = SubSeq(Delimiter, 1, x)})
           = Hold(f, n + 1)
<1>1. PICK c, h, d, y, z, i : c = Canonical(f) /\ h = HeadSize(f.lines) /\ d = Len(Delimiter)
                           /\ y = Hold(f, n) /\ z = Hold(f, n + 1) /\ i = n - y + 1
  OBVIOUS
<1>2. /\ c \in Seq(Symbols) /\ h \in Nat /\ d \in Nat /\ h >= 7
  <2>1. /\ Len(Open) \in Nat /\ Len(Open) >= 2 /\ Len(Delimiter) = Len(Open) + 2
        /\ HeadSize(f.lines) \in Nat /\ HeadSize(f.lines) >= Len(Open) + 7 /\ Canonical(f) \in Seq(Symbols)
    BY Made
  <2> QED BY <2>1, <1>1
<1>3. y \in Nat /\ y <= n - h /\ y <= d /\ z \in Nat /\ z <= y + 1 /\ z <= d
  BY <1>1, HoldNext
<1>4. n < Len(c) /\ n >= h
  BY <1>1
<1>5. i \in Nat /\ 1 <= i /\ i <= n + 1 /\ n + 1 \in Nat /\ n + 1 <= Len(c) /\ i <= (n + 1) + 1 /\ n + 1 - i + 1 = y + 1
  <2>1. PICK k : k = Len(c)
    OBVIOUS
  <2>2. k \in Nat /\ i = n - y + 1 /\ y \in Nat /\ y <= n - h /\ h \in Nat /\ n < k /\ n >= h /\ h >= 7
    BY <2>1, <1>1, <1>2, <1>3, <1>4
  <2>3. i \in Nat /\ 1 <= i /\ i <= n + 1 /\ n + 1 \in Nat /\ n + 1 <= k /\ i <= (n + 1) + 1 /\ n + 1 - i + 1 = y + 1
    BY <2>2
  <2> QED BY <2>1, <2>3
<1>6. got \in Seq(Symbols) /\ Len(got) = y + 1
  BY <1>1, <1>2, <1>5, Stretch
<1> DEFINE S == {x \in 0..Min({Len(got), Len(Delimiter)}) : LastOf(got, x) = SubSeq(Delimiter, 1, x)}
<1>7. Min({Len(got), Len(Delimiter)}) = IF y + 1 <= d THEN y + 1 ELSE d
  <2>1. PICK a : a = y + 1
    OBVIOUS
  <2>2. a \in Int /\ d \in Int
    BY <2>1, <1>2, <1>3
  <2>3. Min({a, d}) = IF a <= d THEN a ELSE d
    BY <2>2, MinOfTwo
  <2>4. Len(got) = a /\ Len(Delimiter) = d
    BY <2>1, <1>1, <1>6
  <2> QED BY <2>1, <2>3, <2>4
<1>8. ASSUME NEW x \in Nat, x <= y + 1, x <= d
      PROVE  LastOf(got, x) = SubSeq(Delimiter, 1, x) <=> Held(f, n + 1, x)
  <2>1. PICK a, b, l : a = LastOf(got, x) /\ b = SubSeq(Delimiter, 1, x) /\ l = n + 1 - x + 1
    OBVIOUS
  <2>2. a = SubSeq(c, l, n + 1)
    <3>1. PICK N : N = n + 1
      OBVIOUS
    <3>2. N \in Nat /\ i <= N + 1 /\ N <= Len(c) /\ x <= N - i + 1
      BY <3>1, <1>5, <1>8
    <3>3. LastOf(SubSeq(c, i, N), x) = SubSeq(c, N - x + 1, N)
      BY <3>2, <1>2, <1>5, LastStretch
    <3> QED BY <3>1, <3>3, <2>1, <1>1
  <2>3. l \in Nat /\ 1 <= l /\ l <= (n + 1) + 1 /\ n + 1 - l + 1 = x
    BY <2>1, <1>2, <1>3, <1>4, <1>8
  <2>4. a \in Seq(Symbols) /\ Len(a) = x /\ \A j \in 1..x : a[j] = c[l + j - 1]
    <3>1. a \in Seq(Symbols) /\ Len(a) = n + 1 - l + 1 /\ \A j \in 1..(n + 1 - l + 1) : a[j] = c[l + j - 1]
      BY <2>2, <2>3, <1>2, <1>5, Stretch
    <3> QED BY <3>1, <2>3
  <2>5. b \in Seq(Symbols) /\ Len(b) = x /\ \A j \in 1..x : b[j] = Delimiter[j]
    <3>1. 1 <= x + 1 /\ x <= Len(Delimiter) /\ x - 1 + 1 = x /\ Delimiter \in Seq(Symbols)
      BY <1>1, <1>8, Marks
    <3>2. b \in Seq(Symbols) /\ Len(b) = x - 1 + 1 /\ \A j \in 1..(x - 1 + 1) : b[j] = Delimiter[1 + j - 1]
      BY <3>1, <2>1, Stretch
    <3>3. \A j \in 1..x : 1 + j - 1 = j
      OBVIOUS
    <3> QED BY <3>1, <3>2, <3>3
  <2>6. a = b <=> \A j \in 1..x : c[l + j - 1] = Delimiter[j]
    BY <2>4, <2>5, SameText
  <2>7. \A j \in 1..x : l + j - 1 = (n + 1) - x + j
    BY <2>1, <1>8
  <2>8. x <= (n + 1) - h
    BY <1>2, <1>3, <1>4, <1>8
  <2> QED BY <2>1, <2>6, <2>7, <2>8, <1>1, <1>8 DEF Held
<1>9. \A x : x \in S <=> x \in Nat /\ x <= y + 1 /\ x <= d /\ Held(f, n + 1, x)
  <2>0. PICK m : m = Min({Len(got), Len(Delimiter)})
    OBVIOUS
  <2>01. \A x \in Nat : x <= m <=> x <= y + 1 /\ x <= d
    <3>1. m = (IF y + 1 <= d THEN y + 1 ELSE d) /\ y \in Nat /\ d \in Nat
      BY <2>0, <1>2, <1>3, <1>7
    <3> QED BY <3>1
  <2>02. m \in Nat
    <3>1. m = (IF y + 1 <= d THEN y + 1 ELSE d) /\ y \in Nat /\ d \in Nat
      BY <2>0, <1>2, <1>3, <1>7
    <3> QED BY <3>1
  <2>1. \A x : x \in 0..m => x \in Nat /\ x <= y + 1 /\ x <= d
    BY <2>01, <2>02
  <2>2. \A x \in Nat : x <= y + 1 /\ x <= d => x \in 0..m
    BY <2>01, <2>02
  <2>3. \A x : x \in S <=> x \in 0..Min({Len(got), Len(Delimiter)}) /\ LastOf(got, x) = SubSeq(Delimiter, 1, x)
    OBVIOUS
  <2> HIDE DEF S
  <2> QED BY <2>0, <2>1, <2>2, <2>3, <1>8
<1> HIDE DEF S
<1>10. Held(f, n + 1, z) /\ \A x : Held(f, n + 1, x) => x <= z
  <2>1. n + 1 \in Nat /\ n + 1 >= HeadSize(f.lines)
    BY <1>1, <1>2, <1>4
  <2> QED BY <2>1, <1>1, Holds
<1>11. z \in S /\ \A x \in S : z >= x
  <2>1. \A x \in S : x \in Nat /\ x <= z
    BY <1>9, <1>10
  <2>2. z \in S
    BY <1>3, <1>9, <1>10
  <2> QED BY <2>1, <2>2, <1>3
<1>12. \A x \in S : (\A v \in S : x >= v) => x = z
  <2>1. \A x \in S : x \in Nat
    BY <1>9
  <2> QED BY <2>1, <1>3, <1>11
<1>13. Max(S) = z
  BY <1>11, <1>12 DEF Max
<1> QED BY <1>1, <1>13 DEF S

(* What InData holds back, and what it makes of one more byte.             *)
HoldsBack(got) == Max({x \in 0..Min({Len(got), Len(Delimiter)}) : LastOf(got, x) = SubSeq(Delimiter, 1, x)})

Grows(held, byte, data, got, z, last, news) ==
  /\ got = Append(held, byte) /\ z = HoldsBack(got) /\ last = LastOf(got, z)
  /\ news = data \o SubSeq(got, 1, Len(got) - z)

(* The data grows by what is held back no more; at the delimiter it ends.  *)
LEMMA DataGrows ==
  ASSUME NEW held, NEW parts, NEW filename, NEW type, NEW data, NEW no, NEW byte,
         NEW got, NEW z, NEW last, NEW news, Grows(held, byte, data, got, z, last, news)
  PROVE  /\ z = Len(Delimiter) =>
              ParseByte(Parser("data", held, parts, filename, type, data, no, "none"), byte) =
                Parser("delimited", <<>>, parts, filename, type, news, no, "none")
         /\ z # Len(Delimiter) =>
              ParseByte(Parser("data", held, parts, filename, type, data, no, "none"), byte) =
                Parser("data", last, parts, filename, type, news, no, "none")
<1> DEFINE p == Parser("data", held, parts, filename, type, data, no, "none")
<1>1. news = data \o SubSeq(got, 1, Len(got) - z) /\ last = LastOf(got, z)
      /\ got = Append(held, byte) /\ z = HoldsBack(got)
  BY DEF Grows
<1>2. ParseByte(p, byte) = InData(p, got)
  BY <1>1, AtData
<1>3. p.data = data
  BY DEF Parser
<1>4. InData(p, got) = IF z = Len(Delimiter)
                         THEN [p EXCEPT !.at = "delimited", !.held = <<>>, !.data = news]
                         ELSE [p EXCEPT !.held = last, !.data = news]
  <2>1. InData(p, got) = IF z = Len(Delimiter)
                         THEN [p EXCEPT !.at = "delimited", !.held = <<>>, !.data = @ \o SubSeq(got, 1, Len(got) - z)]
                         ELSE [p EXCEPT !.held = LastOf(got, z), !.data = @ \o SubSeq(got, 1, Len(got) - z)]
    <3> HIDE DEF p
    <3> QED BY <1>1 DEF InData, Delimiter, HoldsBack
  <2> HIDE DEF p
  <2> QED BY <2>1, <1>1, <1>3
<1>5. [p EXCEPT !.at = "delimited", !.held = <<>>, !.data = news] =
       Parser("delimited", <<>>, parts, filename, type, news, no, "none")
  <2>1. [p EXCEPT !.at = "delimited", !.held = <<>>, !.data = news] = [[[p EXCEPT !.at = "delimited"] EXCEPT !.held = <<>>] EXCEPT !.data = news]
    <3> HIDE DEF p
    <3> QED OBVIOUS
  <2>2. [Parser("data", held, parts, filename, type, data, no, "none") EXCEPT !.at = "delimited"] =
         Parser("delimited", held, parts, filename, type, data, no, "none")
    BY SetAt
  <2>3. [Parser("delimited", held, parts, filename, type, data, no, "none") EXCEPT !.held = <<>>] =
         Parser("delimited", <<>>, parts, filename, type, data, no, "none")
    BY SetHeld
  <2>4. [Parser("delimited", <<>>, parts, filename, type, data, no, "none") EXCEPT !.data = news] =
         Parser("delimited", <<>>, parts, filename, type, news, no, "none")
    BY SetData
  <2> QED BY <2>1, <2>2, <2>3, <2>4, Zenon
<1>6. [p EXCEPT !.held = last, !.data = news] =
       Parser("data", last, parts, filename, type, news, no, "none")
  <2>1. [p EXCEPT !.held = last, !.data = news] = [[p EXCEPT !.held = last] EXCEPT !.data = news]
    <3> HIDE DEF p
    <3> QED OBVIOUS
  <2>2. [Parser("data", held, parts, filename, type, data, no, "none") EXCEPT !.held = last] =
         Parser("data", last, parts, filename, type, data, no, "none")
    BY SetHeld
  <2>3. [Parser("data", last, parts, filename, type, data, no, "none") EXCEPT !.data = news] =
         Parser("data", last, parts, filename, type, news, no, "none")
    BY SetData
  <2> QED BY <2>1, <2>2, <2>3, Zenon
<1> QED BY <1>1, <1>2, <1>4, <1>5, <1>6, Zenon

(* ... in the data.                                                        *)
LEMMA StepsData ==
  ASSUME NEW f, WellComposed(f), NEW n \in Nat, n >= HeadSize(f.lines), n < Len(Canonical(f)),
         f.then = "cut" \/ n < DataEnd(f) + Len(Delimiter), f.lines[1] # "O"
  PROVE  Steps(f, n)
<1>1. PICK c, o, h, e, d, k, y, z, i :
        /\ c = Canonical(f) /\ o = Len(Open) /\ h = HeadSize(f.lines) /\ e = DataEnd(f) /\ d = Len(Delimiter)
        /\ k = Len(c) /\ y = Hold(f, n) /\ z = Hold(f, n + 1) /\ i = n - y + 1
  OBVIOUS
<1>2. c \in Seq(Symbols) /\ FormText(c, f) /\ PartText(c, f.lines, f.data)
  BY <1>1, Made
<1>0. /\ o \in Nat /\ o >= 2 /\ d = o + 2 /\ k \in Nat /\ k >= e /\ e \in Nat /\ e >= h
      /\ n \in Nat /\ n >= h /\ h \in Nat /\ h >= o + 7 /\ n < k
      /\ y \in Nat /\ y <= n - h /\ z \in Nat /\ z <= y + 1 /\ z <= n + 1 - h /\ z <= d /\ i = n - y + 1
  <2>1. PICK l : l = Len(f.data)
    OBVIOUS
  <2>2. /\ o \in Nat /\ o >= 2 /\ k \in Nat /\ k >= e /\ h \in Nat /\ h >= o + 7 /\ e \in Nat /\ e = h + l
        /\ l \in Nat /\ n >= h /\ d = o + 2 /\ n < k
    BY <1>1, <2>1, Made
  <2>3. y \in Nat /\ y <= n - h /\ z \in Nat /\ z <= y + 1 /\ z <= n + 1 - h /\ z <= d
    <3>1. /\ Hold(f, n) \in Nat /\ Hold(f, n + 1) \in Nat /\ Hold(f, n + 1) <= Hold(f, n) + 1
          /\ Hold(f, n) <= n - HeadSize(f.lines) /\ Hold(f, n) <= Len(Delimiter)
          /\ Hold(f, n + 1) <= (n + 1) - HeadSize(f.lines) /\ Hold(f, n + 1) <= Len(Delimiter)
      <4>1. n >= HeadSize(f.lines)
        OBVIOUS
      <4> QED BY <4>1, HoldNext
    <3>2. Hold(f, n) = y /\ Hold(f, n + 1) = z /\ HeadSize(f.lines) = h /\ Len(Delimiter) = d
      BY <1>1
    <3>3. z <= n + 1 - h
      <4>1. Hold(f, n + 1) <= (n + 1) - HeadSize(f.lines)
        BY <3>1
      <4>2. PICK Z, H : Z = Hold(f, n + 1) /\ H = HeadSize(f.lines)
        OBVIOUS
      <4>3. Z <= (n + 1) - H /\ Z = z /\ H = h /\ Z \in Nat
        BY <4>1, <4>2, <3>1, <3>2
      <4>4. H \in Nat
        BY <4>2, Made
      <4> QED BY <4>3, <4>4
    <3> QED BY <3>1, <3>2, <3>3
  <2>4. i = n - y + 1
    BY <1>1
  <2> QED BY <2>2, <2>3, <2>4
<1>3. i \in Nat /\ 1 <= i /\ i <= n + 1 /\ n < Len(c) /\ n + 1 \in Nat /\ n + 1 <= Len(c) /\ i <= (n + 1) + 1
      /\ n + 1 - i + 1 = y + 1
  <2>1. i \in Nat /\ 1 <= i /\ i <= n + 1 /\ n < k /\ n + 1 \in Nat /\ n + 1 <= k /\ i <= (n + 1) + 1
        /\ n + 1 - i + 1 = y + 1
    BY <1>0
  <2> QED BY <2>1, <1>1
<1>4. PICK held, got, data, type, no :
        /\ held = SubSeq(c, i, n) /\ got = Append(held, c[n + 1]) /\ data = SubSeq(c, h + 1, n - y)
        /\ type = TypeSeen(f.lines, Len(f.lines)) /\ no = FALSE
  OBVIOUS
<1>5. got = SubSeq(c, i, n + 1) /\ Len(got) = y + 1
  <2>1. got = SubSeq(c, i, n + 1)
    BY <1>2, <1>3, <1>4, More
  <2>2. Len(SubSeq(c, i, n + 1)) = n + 1 - i + 1
    BY <1>2, <1>3, Stretch
  <2> QED BY <2>1, <2>2, <1>3
<1>6. z = HoldsBack(got)
  <2>1. got = SubSeq(Canonical(f), n - Hold(f, n) + 1, n + 1)
    BY <1>1, <1>5
  <2>2. n >= HeadSize(f.lines) /\ n < Len(Canonical(f))
    OBVIOUS
  <2>3. Max({x \in 0..Min({Len(got), Len(Delimiter)}) : LastOf(got, x) = SubSeq(Delimiter, 1, x)}) = Hold(f, n + 1)
    BY <2>1, <2>2, HoldFound
  <2> QED BY <2>3, <1>1 DEF HoldsBack
<1>7. StateAt(f, n) = Parser("data", held, 1, f.lines[1], type, data, no, "none")
  <2>1. ~(n < o) /\ ~(n < o + 2) /\ ~(n < h)
    BY <1>0
  <2>2. StateAt(f, n) = DataState(f, n)
    BY <2>1, <1>1 DEF StateAt
  <2> QED BY <2>2, <1>1, <1>4 DEF DataState
<1>8. data \o SubSeq(got, 1, Len(got) - z) = SubSeq(c, h + 1, n + 1 - z)
  <2>1. PICK a, b, j : a = y + 1 - z /\ b = n - y /\ j = n + 1 - z
    OBVIOUS
  <2>2. a \in Nat /\ 1 <= a + 1 /\ a <= n + 1 - i + 1 /\ i + a - 1 = j /\ i + 1 - 1 = i /\ i = b + 1
        /\ b \in Nat /\ j \in Nat /\ h + 1 \in Nat /\ 1 <= h + 1 /\ h + 1 <= b + 1 /\ b <= j /\ j <= k /\ Len(got) - z = a
    BY <2>1, <1>0, <1>5
  <2>3. SubSeq(got, 1, a) = SubSeq(c, i, j)
    <3>1. PICK N : N = n + 1
      OBVIOUS
    <3>2. N \in Nat /\ i <= N + 1 /\ N <= Len(c) /\ a <= N - i + 1
      BY <3>1, <1>3, <2>2
    <3>3. SubSeq(SubSeq(c, i, N), 1, a) = SubSeq(c, i + 1 - 1, i + a - 1)
      BY <3>2, <2>2, <1>2, <1>3, StretchWithin
    <3> QED BY <3>1, <3>3, <2>2, <1>5
  <2>4. SubSeq(c, h + 1, b) \o SubSeq(c, b + 1, j) = SubSeq(c, h + 1, j)
    <3>1. PICK x : x = h + 1
      OBVIOUS
    <3>2. x \in Nat /\ 1 <= x /\ x <= b + 1 /\ b \in Nat /\ j \in Nat /\ b <= j /\ j <= Len(c)
      BY <3>1, <2>2, <1>1
    <3>3. SubSeq(c, x, b) \o SubSeq(c, b + 1, j) = SubSeq(c, x, j)
      BY <3>2, <1>2, Stretches
    <3> QED BY <3>1, <3>3
  <2> QED BY <2>1, <2>2, <2>3, <2>4, <1>4
<1>9. LastOf(got, z) = SubSeq(c, n + 1 - z + 1, n + 1)
  <2>1. PICK N : N = n + 1
    OBVIOUS
  <2>2. N \in Nat /\ i \in Nat /\ 1 <= i /\ i <= N + 1 /\ z \in Nat /\ z <= N - i + 1
    BY <2>1, <1>0
  <2>4. c \in Seq(Symbols) /\ N <= Len(c)
    BY <2>1, <1>2, <1>3
  <2>3. LastOf(SubSeq(c, i, N), z) = SubSeq(c, N - z + 1, N)
    BY <2>2, <2>4, LastStretch
  <2> QED BY <2>1, <2>2, <2>3, <1>5
<1>10. ParseByte(StateAt(f, n), c[n + 1]) =
         IF z = d
           THEN Parser("delimited", <<>>, 1, f.lines[1], type, SubSeq(c, h + 1, n + 1 - z), no, "none")
           ELSE Parser("data", SubSeq(c, n + 1 - z + 1, n + 1), 1, f.lines[1], type,
                       SubSeq(c, h + 1, n + 1 - z), no, "none")
  <2>1. PICK name, one, byte, news, last :
          /\ name = f.lines[1] /\ one = 1 /\ byte = c[n + 1]
          /\ news = data \o SubSeq(got, 1, Len(got) - z) /\ last = LastOf(got, z)
    OBVIOUS
  <2>2. got = Append(held, byte)
    BY <2>1, <1>4
  <2>3. PICK grown : grown = ParseByte(Parser("data", held, one, name, type, data, no, "none"), byte)
    OBVIOUS
  <2>4. /\ z = Len(Delimiter) => grown = Parser("delimited", <<>>, one, name, type, news, no, "none")
        /\ z # Len(Delimiter) => grown = Parser("data", last, one, name, type, news, no, "none")
    <3>1. Grows(held, byte, data, got, z, last, news)
      BY <2>1, <2>2, <1>6 DEF Grows
    <3> QED BY <3>1, <2>3, DataGrows
  <2>5. grown = ParseByte(StateAt(f, n), c[n + 1])
    BY <2>1, <2>3, <1>7
  <2>6. news = SubSeq(c, h + 1, n + 1 - z) /\ last = SubSeq(c, n + 1 - z + 1, n + 1)
    BY <2>1, <1>8, <1>9
  <2> QED BY <2>1, <2>4, <2>5, <2>6, <1>1
<1>11. (z = d) <=> (f.then # "cut" /\ n + 1 = e + d)
  <2>1. Held(f, n + 1, z) /\ \A x : Held(f, n + 1, x) => x <= z
    <3>1. n + 1 \in Nat /\ n + 1 >= HeadSize(f.lines)
      BY <1>0, <1>1
    <3> QED BY <3>1, <1>1, Holds
  <2>2. ASSUME z = d PROVE f.then # "cut" /\ n + 1 = e + d
    <3>1. PICK s : s = n + 1 - d + 1
      OBVIOUS
    <3>2. \A j \in 1..d : c[n + 1 - d + j] = Delimiter[j]
      BY <2>1, <2>2, <1>1 DEF Held
    <3>3. s \in Nat \ {0} /\ s + d - 1 <= k /\ \A j \in 1..d : s + j - 1 = n + 1 - d + j
      BY <3>1, <2>2, <1>0
    <3>4. Occurs(Delimiter, c, s)
      BY <3>2, <3>3, <1>1 DEF Occurs
    <3>5. s > e
      BY <3>4, <1>1, NoDelimiterBefore
    <3>6. f.then # "cut"
      <4>1. f.then = "cut" => k = e
        BY <1>1, <1>2 DEF FormText
      <4> QED BY <4>1, <3>3, <3>5, <1>0
    <3>7. n < e + d
      BY <3>6, <1>1
    <3> QED BY <3>1, <3>5, <3>6, <3>7, <1>0
  <2>3. ASSUME f.then # "cut", n + 1 = e + d PROVE z = d
    <3>1. \A j \in 1..d : c[e + j] = Delimiter[j]
      BY <2>3, <1>1, <1>2 DEF FormText
    <3>2. \A j \in 1..d : (n + 1) - d + j = e + j
      BY <2>3, <1>0
    <3>3. d \in Nat /\ d <= (n + 1) - h
      BY <2>3, <1>0
    <3>4. Held(f, n + 1, d)
      BY <3>1, <3>2, <3>3, <1>1 DEF Held
    <3> QED BY <3>4, <2>1, <1>0
  <2> QED BY <2>2, <2>3
<1>12. ~(n + 1 < o) /\ ~(n + 1 < o + 2) /\ ~(n + 1 < h)
  BY <1>0
<1>13. CASE z # d
  <2>1. f.then = "cut" \/ n + 1 < e + d
    <3>1. f.then = "cut" \/ n < e + d
      BY <1>1
    <3>2. n + 1 = e + d => f.then = "cut"
      BY <1>11, <1>13
    <3>3. n < e + d /\ n + 1 # e + d => n + 1 < e + d
      BY <1>0
    <3> QED BY <3>1, <3>2, <3>3
  <2>2. StateAt(f, n + 1) = DataState(f, n + 1)
    BY <2>1, <1>1, <1>12 DEF StateAt
  <2>3. DataState(f, n + 1) = Parser("data", SubSeq(c, n + 1 - z + 1, n + 1), 1, f.lines[1], type,
                                   SubSeq(c, h + 1, n + 1 - z), no, "none")
    <3>1. PICK N : N = n + 1
      OBVIOUS
    <3>2. Hold(f, N) = z /\ HeadSize(f.lines) = h /\ Canonical(f) = c /\ no = FALSE
          /\ type = TypeSeen(f.lines, Len(f.lines))
      BY <3>1, <1>1, <1>4
    <3>3. DataState(f, N) = Parser("data", SubSeq(c, N - z + 1, N), 1, f.lines[1], type,
                                   SubSeq(c, h + 1, N - z), no, "none")
      BY <3>2 DEF DataState
    <3> QED BY <3>1, <3>3, <1>0
  <2> QED BY <2>2, <2>3, <1>1, <1>10, <1>13 DEF Steps
<1>14. CASE z = d
  <2>1. f.then # "cut" /\ n + 1 = e + d
    BY <1>11, <1>14
  <2>2. ~(n + 1 < e + d) /\ n + 1 < e + d + 2 /\ n + 1 - z = e
    BY <2>1, <1>0, <1>14
  <2>3. StateAt(f, n + 1) = Past(f, "delimited", SubSeq(c, e + d + 1, n + 1), 1, FALSE, "none")
    BY <2>1, <2>2, <1>1, <1>12 DEF StateAt
  <2>4. SubSeq(c, e + d + 1, n + 1) = <<>>
    <3>1. PICK x : x = n + 1 + 1
      OBVIOUS
    <3>2. x \in Nat /\ 1 <= x /\ x <= k + 1 /\ x - 1 = n + 1 /\ x = e + d + 1
      BY <3>1, <2>1, <1>0
    <3>3. SubSeq(c, x, x - 1) = <<>>
      BY <3>2, <1>1, <1>2, Short
    <3> QED BY <3>2, <3>3
  <2>5. SubSeq(c, h + 1, e) = f.data
    <3>1. PICK t, l, x : t = SubSeq(c, h + 1, e) /\ l = Len(f.data) /\ x = h + 1
      OBVIOUS
    <3>2. e = h + l /\ l \in Nat /\ f.data \in Seq(Symbols)
      BY <3>1, <1>1, Made, Composed
    <3>3. x \in Nat /\ 1 <= x /\ x <= e + 1 /\ e <= Len(c) /\ e - x + 1 = l
      <4>1. x \in Nat /\ 1 <= x /\ x <= e + 1 /\ e <= k /\ e - x + 1 = l
        BY <3>1, <3>2, <1>0
      <4> QED BY <4>1, <1>1
    <3>4. t \in Seq(Symbols) /\ Len(t) = e - x + 1 /\ \A j \in 1..(e - x + 1) : t[j] = c[x + j - 1]
      BY <3>1, <3>3, <1>0, <1>2, Stretch
    <3>5. \A j \in 1..l : c[h + j] = f.data[j]
      BY <3>1, <1>1, <1>2 DEF PartText
    <3>6. \A j \in 1..l : x + j - 1 = h + j
      BY <3>1, <3>2, <1>0
    <3>7. Len(t) = l /\ \A j \in 1..l : t[j] = f.data[j]
      BY <3>3, <3>4, <3>5, <3>6
    <3> QED BY <3>1, <3>2, <3>4, <3>7, SameText
  <2>6. StateAt(f, n + 1) = Parser("delimited", <<>>, 1, f.lines[1], type, f.data, no, "none")
    BY <2>3, <2>4, <1>4 DEF Past
  <2> QED BY <2>2, <2>5, <2>6, <1>1, <1>10, <1>14 DEF Steps
<1> QED BY <1>13, <1>14

(* What follows the data of a form that is not cut off, symbol by symbol.  *)
AfterData(f) == DataEnd(f) + Len(Delimiter)

(* The symbols that follow the data and its delimiter.                     *)
TailText(f, c, e) ==
  /\ c = Canonical(f) /\ e = AfterData(f) /\ e \in Nat /\ c \in Seq(Symbols)
  /\ f.then = "close" => Len(c) = e + 4 /\ c[e + 1] = "-" /\ c[e + 2] = "-" /\ c[e + 3] = "r" /\ c[e + 4] = "l"
  /\ f.then # "close" => Len(c) > e + 5 /\ c[e + 1] = "r" /\ c[e + 2] = "l" /\ c[e + 4] = "r" /\ c[e + 5] = "l"
                         /\ c[e + 3] = IF f.then = "second" THEN "D" ELSE "O"

(* The text of a form has them there.                                      *)
LEMMA Tails ==
  ASSUME NEW f, WellComposed(f), f.then # "cut", NEW c, c = Canonical(f), NEW e, e = AfterData(f)
  PROVE  TailText(f, c, e)
<1>1. PICK o, x : o = Len(Open) /\ x = DataEnd(f)
  OBVIOUS
<1>2. o \in Nat /\ x \in Nat /\ c \in Seq(Symbols) /\ FormText(c, f) /\ Len(Delimiter) = o + 2
  BY <1>1, Made
<1>3. e = x + (o + 2)
  BY <1>1, <1>2 DEF AfterData
<1>4. e \in Nat /\ e + 1 = x + o + 3 /\ e + 2 = x + o + 4 /\ e + 3 = x + o + 5 /\ e + 4 = x + o + 6
      /\ e + 5 = x + o + 7 /\ x + 2 * o + 16 > e + 5
  BY <1>2, <1>3
<1>5. ASSUME f.then = "close"
      PROVE  Len(c) = e + 4 /\ c[e + 1] = "-" /\ c[e + 2] = "-" /\ c[e + 3] = "r" /\ c[e + 4] = "l"
  <2>1. ClosedText(c, x)
    BY <1>1, <1>2, <1>5 DEF FormText
  <2>2. Len(c) = x + o + 6 /\ c[x + o + 3] = "-" /\ c[x + o + 4] = "-" /\ c[x + o + 5] = "r" /\ c[x + o + 6] = "l"
    BY <2>1, <1>1 DEF ClosedText
  <2> QED BY <2>2, <1>4
<1>6. ASSUME f.then # "close"
      PROVE  Len(c) > e + 5 /\ c[e + 1] = "r" /\ c[e + 2] = "l" /\ c[e + 4] = "r" /\ c[e + 5] = "l"
             /\ c[e + 3] = IF f.then = "second" THEN "D" ELSE "O"
  <2>1. PICK line : line = IF f.then = "second" THEN "D" ELSE "O"
    OBVIOUS
  <2>2. AnotherText(c, x, line)
    <3>1. f.then \in {"second", "other"}
      BY <1>6, Composed
    <3> QED BY <3>1, <2>1, <1>1, <1>2 DEF FormText
  <2>3. Len(c) = x + 2 * o + 16 /\ c[x + o + 3] = "r" /\ c[x + o + 4] = "l" /\ c[x + o + 5] = line
        /\ c[x + o + 6] = "r" /\ c[x + o + 7] = "l"
    BY <2>2, <1>1 DEF AnotherText
  <2> QED BY <2>1, <2>3, <1>4
<1> QED BY <1>2, <1>4, <1>5, <1>6 DEF TailText

(* The parser's state there.                                               *)
TailStates(f, c, e) ==
  /\ StateAt(f, e) = Past(f, "delimited", <<>>, 1, FALSE, "none")
  /\ StateAt(f, e + 1) = Past(f, "delimited", <<c[e + 1]>>, 1, FALSE, "none")
  /\ f.then = "close" =>
       /\ StateAt(f, e + 2) = Past(f, "closing", <<>>, 1, FALSE, "none")
       /\ StateAt(f, e + 3) = Past(f, "closing", <<"r">>, 1, FALSE, "none")
       /\ StateAt(f, e + 4) = Past(f, "closed", <<"r">>, 1, TRUE, "none")
  /\ f.then # "close" =>
       /\ StateAt(f, e + 2) = Past(f, "head", <<>>, 1, TRUE, "none")
       /\ StateAt(f, e + 3) = Past(f, "head", <<c[e + 3]>>, 1, TRUE, "none")
       /\ StateAt(f, e + 4) = Past(f, "head", <<c[e + 3], "r">>, 1, TRUE, "none")
       /\ \A n \in Nat : n >= e + 5 =>
            StateAt(f, n) = IF f.then = "second" THEN Past(f, "head", <<>>, 2, TRUE, "duplicate_file")
                            ELSE Past(f, "head", <<>>, 1, TRUE, "unexpected_part")

(* The states of the parser past the data.                                 *)
LEMMA InTail ==
  ASSUME NEW f, WellComposed(f), f.then # "cut", f.lines[1] # "O", NEW n \in Nat, n >= AfterData(f)
  PROVE  StateAt(f, n) =
           IF n < AfterData(f) + 2 THEN Past(f, "delimited", SubSeq(Canonical(f), AfterData(f) + 1, n), 1, FALSE, "none")
           ELSE IF f.then = "close" THEN
             IF n < Len(Canonical(f)) THEN Past(f, "closing", SubSeq(Canonical(f), AfterData(f) + 3, n), 1, FALSE, "none")
             ELSE Past(f, "closed", <<"r">>, 1, TRUE, "none")
           ELSE IF n < AfterData(f) + 5 THEN Past(f, "head", SubSeq(Canonical(f), AfterData(f) + 3, n), 1, TRUE, "none")
           ELSE IF f.then = "second" THEN Past(f, "head", <<>>, 2, TRUE, "duplicate_file")
           ELSE Past(f, "head", <<>>, 1, TRUE, "unexpected_part")
<1>1. PICK o, h, e, x, d : o = Len(Open) /\ h = HeadSize(f.lines) /\ e = AfterData(f) /\ x = DataEnd(f) /\ d = Len(Delimiter)
  OBVIOUS
<1>2. o \in Nat /\ d = o + 2 /\ h \in Nat /\ h >= o + 7 /\ x \in Nat /\ x >= h /\ e = x + d /\ n >= e
  <2>1. PICK l : l = Len(f.data)
    OBVIOUS
  <2>2. o \in Nat /\ d = o + 2 /\ h \in Nat /\ h >= o + 7 /\ x \in Nat /\ x = h + l /\ l \in Nat
    BY <1>1, <2>1, Made
  <2>3. e = x + d /\ n >= e
    BY <1>1 DEF AfterData
  <2> QED BY <2>2, <2>3
<1>3. ~(n < o) /\ ~(n < o + 2) /\ ~(n < h) /\ ~(n < e)
  BY <1>2
<1> QED BY <1>1, <1>3 DEF StateAt, AfterData

(* The same, one by one.                                                   *)
LEMMA StatesOfTail ==
  ASSUME NEW f, WellComposed(f), f.then # "cut", f.lines[1] # "O", NEW c, NEW e, TailText(f, c, e)
  PROVE  TailStates(f, c, e)
<1>1. c = Canonical(f) /\ e = AfterData(f) /\ e \in Nat /\ c \in Seq(Symbols)
  BY DEF TailText
<1>2. PICK k : k = Len(c)
  OBVIOUS
<1>3. /\ f.then = "close" => k = e + 4 /\ c[e + 3] = "r"
      /\ f.then # "close" => k > e + 5 /\ c[e + 4] = "r"
      /\ k \in Nat
  BY <1>1, <1>2 DEF TailText
<1>4. k >= e + 4
  BY <1>1, <1>3
<1>5. SubSeq(c, e + 1, e) = <<>> /\ SubSeq(c, e + 1, e + 1) = <<c[e + 1]>>
  <2>1. PICK i : i = e + 1
    OBVIOUS
  <2>2. i \in Nat /\ 1 <= i /\ i <= k /\ i <= k + 1 /\ i - 1 = e
    BY <2>1, <1>1, <1>4, <1>3
  <2>3. SubSeq(c, i, i - 1) = <<>> /\ SubSeq(c, i, i) = <<c[i]>>
    BY <2>2, <1>1, <1>2, Short
  <2> QED BY <2>1, <2>2, <2>3
<1>6. SubSeq(c, e + 3, e + 2) = <<>> /\ SubSeq(c, e + 3, e + 3) = <<c[e + 3]>>
      /\ SubSeq(c, e + 3, e + 4) = <<c[e + 3], c[e + 4]>>
  <2>1. PICK i : i = e + 3
    OBVIOUS
  <2>2. i \in Nat /\ 1 <= i /\ i <= k /\ i <= k + 1 /\ i + 1 <= k /\ i - 1 = e + 2 /\ i + 1 = e + 4
    BY <2>1, <1>1, <1>4, <1>3
  <2>3. SubSeq(c, i, i - 1) = <<>> /\ SubSeq(c, i, i) = <<c[i]>> /\ SubSeq(c, i, i + 1) = <<c[i], c[i + 1]>>
    BY <2>2, <1>1, <1>2, Short
  <2> QED BY <2>1, <2>2, <2>3
<1>7. ASSUME NEW n \in Nat, n >= e
      PROVE  StateAt(f, n) =
           IF n < e + 2 THEN Past(f, "delimited", SubSeq(c, e + 1, n), 1, FALSE, "none")
           ELSE IF f.then = "close" THEN
             IF n < k THEN Past(f, "closing", SubSeq(c, e + 3, n), 1, FALSE, "none")
             ELSE Past(f, "closed", <<"r">>, 1, TRUE, "none")
           ELSE IF n < e + 5 THEN Past(f, "head", SubSeq(c, e + 3, n), 1, TRUE, "none")
           ELSE IF f.then = "second" THEN Past(f, "head", <<>>, 2, TRUE, "duplicate_file")
           ELSE Past(f, "head", <<>>, 1, TRUE, "unexpected_part")
  <2>1. n >= AfterData(f)
    BY <1>1, <1>7
  <2> QED BY <2>1, <1>1, <1>2, InTail
<1>8. StateAt(f, e) = Past(f, "delimited", <<>>, 1, FALSE, "none")
  <2>1. e >= e /\ e < e + 2
    BY <1>1
  <2> QED BY <2>1, <1>1, <1>5, <1>7
<1>9. StateAt(f, e + 1) = Past(f, "delimited", <<c[e + 1]>>, 1, FALSE, "none")
  <2>1. PICK n : n = e + 1
    OBVIOUS
  <2>2. n \in Nat /\ n >= e /\ n < e + 2
    BY <1>1, <2>1
  <2>3. StateAt(f, n) = Past(f, "delimited", SubSeq(c, e + 1, n), 1, FALSE, "none")
    BY <2>2, <1>7
  <2> QED BY <2>1, <2>3, <1>5
<1>10. ASSUME f.then = "close"
       PROVE  /\ StateAt(f, e + 2) = Past(f, "closing", <<>>, 1, FALSE, "none")
              /\ StateAt(f, e + 3) = Past(f, "closing", <<"r">>, 1, FALSE, "none")
              /\ StateAt(f, e + 4) = Past(f, "closed", <<"r">>, 1, TRUE, "none")
  <2>1. PICK n, m, l : n = e + 2 /\ m = e + 3 /\ l = e + 4
    OBVIOUS
  <2>2. n \in Nat /\ n >= e /\ ~(n < e + 2) /\ n < k /\ m \in Nat /\ m >= e /\ ~(m < e + 2) /\ m < k
        /\ l \in Nat /\ l >= e /\ ~(l < e + 2) /\ ~(l < k)
    BY <2>1, <1>1, <1>3, <1>10
  <2>3. StateAt(f, n) = Past(f, "closing", SubSeq(c, e + 3, n), 1, FALSE, "none")
    BY <2>2, <1>7, <1>10
  <2>4. StateAt(f, m) = Past(f, "closing", SubSeq(c, e + 3, m), 1, FALSE, "none")
    BY <2>2, <1>7, <1>10
  <2>5. StateAt(f, l) = Past(f, "closed", <<"r">>, 1, TRUE, "none")
    BY <2>2, <1>7, <1>10
  <2> QED BY <2>1, <2>3, <2>4, <2>5, <1>3, <1>6, <1>10
<1>11. ASSUME f.then # "close"
       PROVE  /\ StateAt(f, e + 2) = Past(f, "head", <<>>, 1, TRUE, "none")
              /\ StateAt(f, e + 3) = Past(f, "head", <<c[e + 3]>>, 1, TRUE, "none")
              /\ StateAt(f, e + 4) = Past(f, "head", <<c[e + 3], "r">>, 1, TRUE, "none")
  <2>1. PICK n, m, l : n = e + 2 /\ m = e + 3 /\ l = e + 4
    OBVIOUS
  <2>2. n \in Nat /\ n >= e /\ ~(n < e + 2) /\ n < e + 5 /\ m \in Nat /\ m >= e /\ ~(m < e + 2) /\ m < e + 5
        /\ l \in Nat /\ l >= e /\ ~(l < e + 2) /\ l < e + 5
    BY <2>1, <1>1
  <2>3. StateAt(f, n) = Past(f, "head", SubSeq(c, e + 3, n), 1, TRUE, "none")
    BY <2>2, <1>7, <1>11
  <2>4. StateAt(f, m) = Past(f, "head", SubSeq(c, e + 3, m), 1, TRUE, "none")
    BY <2>2, <1>7, <1>11
  <2>5. StateAt(f, l) = Past(f, "head", SubSeq(c, e + 3, l), 1, TRUE, "none")
    BY <2>2, <1>7, <1>11
  <2> QED BY <2>1, <2>3, <2>4, <2>5, <1>3, <1>6, <1>11
<1>12. ASSUME f.then # "close", NEW n \in Nat, n >= e + 5
       PROVE  StateAt(f, n) = IF f.then = "second" THEN Past(f, "head", <<>>, 2, TRUE, "duplicate_file")
                              ELSE Past(f, "head", <<>>, 1, TRUE, "unexpected_part")
  <2>1. n >= e /\ ~(n < e + 2) /\ ~(n < e + 5)
    BY <1>1, <1>12
  <2> QED BY <2>1, <1>7, <1>12
<1> QED BY <1>8, <1>9, <1>10, <1>11, <1>12 DEF TailStates

(* The parser's steps once the data is over.                               *)
LEMMA PastDelimited ==
  ASSUME NEW f, NEW byte
  PROVE  /\ ParseByte(Past(f, "delimited", <<>>, 1, FALSE, "none"), byte) = Past(f, "delimited", <<byte>>, 1, FALSE, "none")
         /\ ParseByte(Past(f, "delimited", <<"r">>, 1, FALSE, "none"), "l") = Past(f, "head", <<>>, 1, TRUE, "none")
         /\ ParseByte(Past(f, "delimited", <<"-">>, 1, FALSE, "none"), "-") = Past(f, "closing", <<>>, 1, FALSE, "none")
<1>1. PICK name, type, data, one, no, yes :
        /\ name = f.lines[1] /\ type = TypeSeen(f.lines, Len(f.lines)) /\ data = f.data
        /\ one = 1 /\ no = FALSE /\ yes = (one > 0)
  OBVIOUS
<1>2. ASSUME NEW held, NEW b, NEW got, got = Append(held, b)
      PROVE  ParseByte(Parser("delimited", held, one, name, type, data, no, "none"), b) =
               IF Len(got) < 2 THEN Parser("delimited", got, one, name, type, data, no, "none")
               ELSE IF got = CRLF THEN Parser("head", <<>>, one, name, type, data, one > 0, "none")
               ELSE IF got = <<"-", "-">> THEN Parser("closing", <<>>, one, name, type, data, no, "none")
               ELSE Parser("delimited", held, one, name, type, data, no, "bad_multipart")
  <2>1. ParseByte(Parser("delimited", held, one, name, type, data, no, "none"), b) =
          DelimitedOn(held, one, name, type, data, no, got)
    BY <1>2, AtDelimited
  <2> QED BY <2>1, Zenon DEF DelimitedOn
<1>3. ASSUME NEW at, NEW held, NEW fault
      PROVE  Past(f, at, held, 1, FALSE, fault) = Parser(at, held, one, name, type, data, no, fault)
  BY <1>1, Zenon DEF Past
<1>4. Past(f, "head", <<>>, 1, TRUE, "none") = Parser("head", <<>>, one, name, type, data, one > 0, "none")
  <2>1. (one > 0) = TRUE
    BY <1>1
  <2> QED BY <2>1, <1>1, Zenon DEF Past
<1>5. ParseByte(Past(f, "delimited", <<>>, 1, FALSE, "none"), byte) = Past(f, "delimited", <<byte>>, 1, FALSE, "none")
  <2>1. PICK held, got : held = <<>> /\ got = <<byte>>
    OBVIOUS
  <2>2. got = Append(held, byte) /\ Len(got) < 2
    BY <2>1
  <2>3. ParseByte(Parser("delimited", held, one, name, type, data, no, "none"), byte)
          = Parser("delimited", got, one, name, type, data, no, "none")
    BY <2>2, <1>2
  <2> QED BY <2>1, <2>3, <1>3
<1>6. ParseByte(Past(f, "delimited", <<"r">>, 1, FALSE, "none"), "l") = Past(f, "head", <<>>, 1, TRUE, "none")
  <2>1. PICK held, got, b : held = <<"r">> /\ got = <<"r", "l">> /\ b = "l"
    OBVIOUS
  <2>2. got = Append(held, b) /\ ~(Len(got) < 2) /\ got = CRLF
    BY <2>1 DEF CRLF
  <2>3. ParseByte(Parser("delimited", held, one, name, type, data, no, "none"), b)
          = Parser("head", <<>>, one, name, type, data, one > 0, "none")
    BY <2>2, <1>2
  <2> QED BY <2>1, <2>3, <1>3, <1>4
<1>7. ParseByte(Past(f, "delimited", <<"-">>, 1, FALSE, "none"), "-") = Past(f, "closing", <<>>, 1, FALSE, "none")
  <2>1. PICK held, got, b : held = <<"-">> /\ got = <<"-", "-">> /\ b = "-"
    OBVIOUS
  <2>2. got = Append(held, b) /\ ~(Len(got) < 2) /\ got # CRLF /\ got = <<"-", "-">>
    BY <2>1 DEF CRLF
  <2>3. ParseByte(Parser("delimited", held, one, name, type, data, no, "none"), b)
          = Parser("closing", <<>>, one, name, type, data, no, "none")
    BY <2>2, <1>2
  <2> QED BY <2>1, <2>3, <1>3
<1> QED BY <1>5, <1>6, <1>7

LEMMA PastClosing ==
  ASSUME NEW f
  PROVE  /\ ParseByte(Past(f, "closing", <<>>, 1, FALSE, "none"), "r") = Past(f, "closing", <<"r">>, 1, FALSE, "none")
         /\ ParseByte(Past(f, "closing", <<"r">>, 1, FALSE, "none"), "l") = Past(f, "closed", <<"r">>, 1, TRUE, "none")
<1>1. PICK name, type, data, one, no :
        /\ name = f.lines[1] /\ type = TypeSeen(f.lines, Len(f.lines)) /\ data = f.data
        /\ one = 1 /\ no = FALSE
  OBVIOUS
<1>2. ASSUME NEW held, NEW b, NEW got, got = Append(held, b)
      PROVE  ParseByte(Parser("closing", held, one, name, type, data, no, "none"), b) =
               IF got = CRLF THEN Parser("closed", held, one, name, type, data, one > 0, "none")
               ELSE Parser("closing", got, one, name, type, data, no, "none")
  <2>1. ParseByte(Parser("closing", held, one, name, type, data, no, "none"), b) =
          LET g == Append(held, b) IN
          IF g = CRLF THEN Parser("closed", held, one, name, type, data, one > 0, "none")
          ELSE Parser("closing", g, one, name, type, data, no, "none")
    BY AtClosing
  <2> QED BY <1>2, <2>1
<1>3. ASSUME NEW at, NEW held, NEW fault
      PROVE  Past(f, at, held, 1, FALSE, fault) = Parser(at, held, one, name, type, data, no, fault)
  BY <1>1, Zenon DEF Past
<1>4. ASSUME NEW held
      PROVE Past(f, "closed", held, 1, TRUE, "none") = Parser("closed", held, one, name, type, data, one > 0, "none")
  <2>1. (one > 0) = TRUE
    BY <1>1
  <2> QED BY <2>1, <1>1, Zenon DEF Past
<1>5. ParseByte(Past(f, "closing", <<>>, 1, FALSE, "none"), "r") = Past(f, "closing", <<"r">>, 1, FALSE, "none")
  <2>1. PICK held, got, b : held = <<>> /\ got = <<"r">> /\ b = "r"
    OBVIOUS
  <2>2. got = Append(held, b) /\ got # CRLF
    BY <2>1 DEF CRLF
  <2>3. ParseByte(Parser("closing", held, one, name, type, data, no, "none"), b)
          = Parser("closing", got, one, name, type, data, no, "none")
    BY <2>2, <1>2
  <2> QED BY <2>1, <2>3, <1>3
<1>6. ParseByte(Past(f, "closing", <<"r">>, 1, FALSE, "none"), "l") = Past(f, "closed", <<"r">>, 1, TRUE, "none")
  <2>1. PICK held, got, b : held = <<"r">> /\ got = <<"r", "l">> /\ b = "l"
    OBVIOUS
  <2>2. got = Append(held, b) /\ got = CRLF
    BY <2>1 DEF CRLF
  <2>3. ParseByte(Parser("closing", held, one, name, type, data, no, "none"), b)
          = Parser("closed", held, one, name, type, data, one > 0, "none")
    BY <2>2, <1>2
  <2> QED BY <2>1, <2>3, <1>3, <1>4
<1> QED BY <1>5, <1>6

LEMMA PastHead ==
  ASSUME NEW f, NEW line \in {"D", "O"}
  PROVE  /\ ParseByte(Past(f, "head", <<>>, 1, TRUE, "none"), line) = Past(f, "head", <<line>>, 1, TRUE, "none")
         /\ ParseByte(Past(f, "head", <<line>>, 1, TRUE, "none"), "r") = Past(f, "head", <<line, "r">>, 1, TRUE, "none")
         /\ ParseByte(Past(f, "head", <<line, "r">>, 1, TRUE, "none"), "l") =
              IF line = "D" THEN Past(f, "head", <<>>, 2, TRUE, "duplicate_file")
              ELSE Past(f, "head", <<>>, 1, TRUE, "unexpected_part")
<1>0. line \in Symbols /\ "r" \in Symbols /\ "l" \in Symbols
  BY DEF Symbols
<1>1. PICK name, type, data, one, yes :
        /\ name = f.lines[1] /\ type = TypeSeen(f.lines, Len(f.lines)) /\ data = f.data
        /\ one = 1 /\ yes = TRUE
  OBVIOUS
<1>2. ASSUME NEW held, NEW b, NEW got, got = Append(held, b)
      PROVE  ParseByte(Parser("head", held, one, name, type, data, yes, "none"), b) =
               IF LastOf(got, 2) = CRLF
                 THEN HeaderLine(Parser("head", held, one, name, type, data, yes, "none"), SubSeq(got, 1, Len(got) - 2))
                 ELSE Parser("head", got, one, name, type, data, yes, "none")
  <2>1. ParseByte(Parser("head", held, one, name, type, data, yes, "none"), b) =
          LET g == Append(held, b) IN
          IF LastOf(g, 2) = CRLF
            THEN HeaderLine(Parser("head", held, one, name, type, data, yes, "none"), SubSeq(g, 1, Len(g) - 2))
            ELSE Parser("head", g, one, name, type, data, yes, "none")
    BY AtHead
  <2> QED BY <1>2, <2>1
<1>3. ASSUME NEW at, NEW held, NEW fault
      PROVE  Past(f, at, held, 1, TRUE, fault) = Parser(at, held, one, name, type, data, yes, fault)
  BY <1>1, Zenon DEF Past
<1>4. ParseByte(Past(f, "head", <<>>, 1, TRUE, "none"), line) = Past(f, "head", <<line>>, 1, TRUE, "none")
  <2>1. PICK held, got : held = <<>> /\ got = <<line>>
    OBVIOUS
  <2>2. got = Append(held, line)
    BY <2>1
  <2>3. LastOf(got, 2) # CRLF
    <3>1. LastOf(<<line>>, 2) = <<line>>
      BY <1>0, LastTwo
    <3>2. <<line>> # CRLF
      BY DEF CRLF
    <3> QED BY <3>1, <3>2, <2>1
  <2>4. ParseByte(Parser("head", held, one, name, type, data, yes, "none"), line)
          = Parser("head", got, one, name, type, data, yes, "none")
    BY <2>2, <2>3, <1>2
  <2> QED BY <2>1, <2>4, <1>3
<1>5. ParseByte(Past(f, "head", <<line>>, 1, TRUE, "none"), "r") = Past(f, "head", <<line, "r">>, 1, TRUE, "none")
  <2>1. PICK held, got, b : held = <<line>> /\ got = <<line, "r">> /\ b = "r"
    OBVIOUS
  <2>2. got = Append(held, b)
    BY <2>1
  <2>3. LastOf(got, 2) # CRLF
    <3>1. LastOf(<<line, "r">>, 2) = <<line, "r">>
      BY <1>0, LastTwo
    <3>2. <<line, "r">> # CRLF
      BY DEF CRLF
    <3> QED BY <3>1, <3>2, <2>1
  <2>4. ParseByte(Parser("head", held, one, name, type, data, yes, "none"), b)
          = Parser("head", got, one, name, type, data, yes, "none")
    BY <2>2, <2>3, <1>2
  <2> QED BY <2>1, <2>4, <1>3
<1>6. ParseByte(Past(f, "head", <<line, "r">>, 1, TRUE, "none"), "l") =
              IF line = "D" THEN Past(f, "head", <<>>, 2, TRUE, "duplicate_file")
              ELSE Past(f, "head", <<>>, 1, TRUE, "unexpected_part")
  <2>1. PICK held, got, b, p : held = <<line, "r">> /\ got = <<line, "r", "l">> /\ b = "l"
                            /\ p = Parser("head", held, one, name, type, data, yes, "none")
    OBVIOUS
  <2>2. got = Append(held, b)
    BY <2>1
  <2>3. LastOf(got, 2) = CRLF /\ SubSeq(got, 1, Len(got) - 2) = <<line>>
    <3>1. LastOf(<<line, "r", "l">>, 2) = <<"r", "l">>
          /\ SubSeq(<<line, "r", "l">>, 1, Len(<<line, "r", "l">>) - 2) = <<line>>
      BY <1>0, LastTwo
    <3> QED BY <3>1, <2>1 DEF CRLF
  <2>4. ParseByte(p, b) = HeaderLine(p, <<line>>)
    BY <2>1, <2>2, <2>3, <1>2
  <2>5. HeaderLine(p, <<line>>) =
           IF line = "D" THEN Parser("head", <<>>, one + 1, name, type, data, yes, "duplicate_file")
           ELSE Parser("head", <<>>, one, name, type, data, yes, "unexpected_part")
    <3>1. HeaderLine(p, <<line>>) =
           IF line \in {"D", "N", "E"}
             THEN IF one = 0 THEN Parser("head", <<>>, 1, line, type, data, yes, "none")
                  ELSE Parser("head", <<>>, one + 1, name, type, data, yes, "duplicate_file")
           ELSE IF line = "O" THEN Parser("head", <<>>, one, name, type, data, yes, "unexpected_part")
           ELSE IF line \in TypeLines THEN Parser("head", <<>>, one, name, line, data, yes, "none")
           ELSE Parser("head", <<>>, one, name, type, data, yes, "none")
      BY <2>1, LineOf
    <3>2. ~(one = 0)
      BY <1>1
    <3> QED BY <3>1, <3>2
  <2>6. one + 1 = 2
    BY <1>1
  <2>7. Past(f, "head", <<>>, 2, TRUE, "duplicate_file") = Parser("head", <<>>, one + 1, name, type, data, yes, "duplicate_file")
    BY <2>6, <1>1, Zenon DEF Past
  <2> QED BY <2>1, <2>4, <2>5, <2>7, <1>3
<1> QED BY <1>4, <1>5, <1>6

(* ... and past the data.                                                  *)
LEMMA StepsAfter ==
  ASSUME NEW f, WellComposed(f), f.then # "cut", f.lines[1] # "O",
         NEW n \in Nat, n >= DataEnd(f) + Len(Delimiter), n < Len(Canonical(f))
  PROVE  Steps(f, n)
<1>1. PICK c, e : c = Canonical(f) /\ e = AfterData(f)
  OBVIOUS
<1>2. TailText(f, c, e) /\ TailStates(f, c, e)
  BY <1>1, Tails, StatesOfTail
<1>3. e \in Nat /\ n >= e /\ n < Len(c)
  BY <1>1, <1>2 DEF TailText, AfterData
<1>4. CASE n = e
  <2>1. ParseByte(StateAt(f, n), c[n + 1]) = Past(f, "delimited", <<c[e + 1]>>, 1, FALSE, "none")
    BY <1>2, <1>4, PastDelimited DEF TailStates
  <2> QED BY <2>1, <1>1, <1>2, <1>4 DEF TailStates, Steps
<1>5. CASE n = e + 1
  <2>1. n + 1 = e + 2
    BY <1>3, <1>5
  <2>2. StateAt(f, n) = Past(f, "delimited", <<c[e + 1]>>, 1, FALSE, "none")
    BY <1>2, <1>5 DEF TailStates
  <2>3. CASE f.then = "close"
    <3>1. c[e + 1] = "-" /\ c[e + 2] = "-"
      BY <1>2, <2>3 DEF TailText
    <3>2. ParseByte(StateAt(f, n), c[n + 1]) = Past(f, "closing", <<>>, 1, FALSE, "none")
      BY <2>1, <2>2, <3>1, PastDelimited
    <3>3. StateAt(f, e + 2) = Past(f, "closing", <<>>, 1, FALSE, "none")
      BY <1>2, <2>3 DEF TailStates
    <3> QED BY <3>2, <3>3, <2>1, <1>1 DEF Steps
  <2>4. CASE f.then # "close"
    <3>1. c[e + 1] = "r" /\ c[e + 2] = "l"
      BY <1>2, <2>4 DEF TailText
    <3>2. ParseByte(StateAt(f, n), c[n + 1]) = Past(f, "head", <<>>, 1, TRUE, "none")
      BY <2>1, <2>2, <3>1, PastDelimited
    <3>3. StateAt(f, e + 2) = Past(f, "head", <<>>, 1, TRUE, "none")
      BY <1>2, <2>4 DEF TailStates
    <3> QED BY <3>2, <3>3, <2>1, <1>1 DEF Steps
  <2> QED BY <2>3, <2>4
<1>6. CASE f.then = "close" /\ n >= e + 2
  <2>1. n \in {e + 2, e + 3} /\ (n = e + 2 => n + 1 = e + 3) /\ (n = e + 3 => n + 1 = e + 4)
    <3>1. Len(c) = e + 4
      BY <1>2, <1>6 DEF TailText
    <3> QED BY <3>1, <1>3, <1>6
  <2>2. c[e + 3] = "r" /\ c[e + 4] = "l"
    BY <1>2, <1>6 DEF TailText
  <2>3. /\ StateAt(f, e + 2) = Past(f, "closing", <<>>, 1, FALSE, "none")
        /\ StateAt(f, e + 3) = Past(f, "closing", <<"r">>, 1, FALSE, "none")
        /\ StateAt(f, e + 4) = Past(f, "closed", <<"r">>, 1, TRUE, "none")
    BY <1>2, <1>6 DEF TailStates
  <2>4. CASE n = e + 2
    BY <2>1, <2>2, <2>3, <2>4, <1>1, PastClosing DEF Steps
  <2>5. CASE n = e + 3
    BY <2>1, <2>2, <2>3, <2>5, <1>1, PastClosing DEF Steps
  <2> QED BY <2>1, <2>4, <2>5
<1>7. CASE f.then # "close" /\ n >= e + 2
  <2>1. PICK line : line = IF f.then = "second" THEN "D" ELSE "O"
    OBVIOUS
  <2>2. c[e + 3] = line /\ c[e + 4] = "r" /\ c[e + 5] = "l" /\ line \in {"D", "O"}
    BY <1>2, <1>7, <2>1 DEF TailText
  <2>3. /\ StateAt(f, e + 2) = Past(f, "head", <<>>, 1, TRUE, "none")
        /\ StateAt(f, e + 3) = Past(f, "head", <<line>>, 1, TRUE, "none")
        /\ StateAt(f, e + 4) = Past(f, "head", <<line, "r">>, 1, TRUE, "none")
    BY <1>2, <1>7, <2>2 DEF TailStates
  <2>4. \A x \in Nat : x >= e + 5 =>
          StateAt(f, x) = IF f.then = "second" THEN Past(f, "head", <<>>, 2, TRUE, "duplicate_file")
                          ELSE Past(f, "head", <<>>, 1, TRUE, "unexpected_part")
    BY <1>2, <1>7 DEF TailStates
  <2>5. CASE n = e + 2
    <3>1. n + 1 = e + 3
      BY <1>3, <2>5
    <3> QED BY <3>1, <2>2, <2>3, <2>5, <1>1, PastHead DEF Steps
  <2>6. CASE n = e + 3
    <3>1. n + 1 = e + 4
      BY <1>3, <2>6
    <3>2. ParseByte(Past(f, "head", <<line>>, 1, TRUE, "none"), "r") = Past(f, "head", <<line, "r">>, 1, TRUE, "none")
      BY <2>2, PastHead
    <3>3. StateAt(f, n) = Past(f, "head", <<line>>, 1, TRUE, "none") /\ Canonical(f)[n + 1] = "r"
      BY <3>1, <2>2, <2>3, <2>6, <1>1
    <3>4. StateAt(f, n + 1) = Past(f, "head", <<line, "r">>, 1, TRUE, "none")
      BY <3>1, <2>3
    <3> QED BY <3>2, <3>3, <3>4 DEF Steps
  <2>7. CASE n = e + 4
    <3>1. n + 1 = e + 5 /\ e + 5 \in Nat /\ e + 5 >= e + 5
      BY <1>3, <2>7
    <3>2. ParseByte(StateAt(f, n), c[n + 1]) =
            IF line = "D" THEN Past(f, "head", <<>>, 2, TRUE, "duplicate_file")
            ELSE Past(f, "head", <<>>, 1, TRUE, "unexpected_part")
      BY <3>1, <2>2, <2>3, <2>7, PastHead
    <3>3. StateAt(f, e + 5) = IF f.then = "second" THEN Past(f, "head", <<>>, 2, TRUE, "duplicate_file")
                              ELSE Past(f, "head", <<>>, 1, TRUE, "unexpected_part")
      BY <3>1, <2>4
    <3> QED BY <3>1, <3>2, <3>3, <2>1, <1>1 DEF Steps
  <2>8. CASE n >= e + 5
    <3>1. n + 1 \in Nat /\ n + 1 >= e + 5
      BY <1>3, <2>8
    <3>2. StateAt(f, n + 1) = StateAt(f, n)
      <4>1. PICK m : m = n + 1
        OBVIOUS
      <4>2. m \in Nat /\ m >= e + 5
        BY <3>1, <4>1
      <4>3. PICK p : p = IF f.then = "second" THEN Past(f, "head", <<>>, 2, TRUE, "duplicate_file")
                          ELSE Past(f, "head", <<>>, 1, TRUE, "unexpected_part")
        OBVIOUS
      <4>4. \A x \in Nat : x >= e + 5 => StateAt(f, x) = p
        BY <2>4, <4>3
      <4>5. StateAt(f, m) = p /\ StateAt(f, n) = p
        BY <4>2, <4>4, <2>8
      <4> QED BY <4>1, <4>5
    <3>3. StateAt(f, n).fault # "none"
      <4>1. Past(f, "head", <<>>, 2, TRUE, "duplicate_file").fault = "duplicate_file"
            /\ Past(f, "head", <<>>, 1, TRUE, "unexpected_part").fault = "unexpected_part"
        BY DEF Past, Parser
      <4>2. StateAt(f, n) = IF f.then = "second" THEN Past(f, "head", <<>>, 2, TRUE, "duplicate_file")
                          ELSE Past(f, "head", <<>>, 1, TRUE, "unexpected_part")
        BY <2>4, <2>8
      <4> QED BY <4>1, <4>2
    <3> QED BY <3>2, <3>3, Stopped DEF Steps
  <2> QED BY <2>5, <2>6, <2>7, <2>8, <1>3, <1>7
<1> QED BY <1>3, <1>4, <1>5, <1>6, <1>7

(* Every step.                                                             *)
LEMMA AllSteps ==
  ASSUME NEW f, WellComposed(f), NEW n \in Nat, n < Len(Canonical(f))
  PROVE  Steps(f, n)
<1>1. PICK o, h, e, d, k : o = Len(Open) /\ h = HeadSize(f.lines) /\ e = DataEnd(f) /\ d = Len(Delimiter)
                           /\ k = Len(Canonical(f))
  OBVIOUS
<1>0. /\ o \in Nat /\ o >= 2 /\ d = o + 2 /\ h \in Nat /\ h >= o + 7 /\ e \in Nat /\ k \in Nat /\ n < k
  BY <1>1, Made
<1>2. CASE n < o
  BY <1>1, <1>2, StepsOpen
<1>3. CASE n >= o /\ n < o + 2
  BY <1>1, <1>3, StepsStart
<1>4. CASE f.lines[1] = "O" /\ n >= o + 5
  <2>1. ~(n < o) /\ ~(n < o + 2) /\ ~(n + 1 < o) /\ ~(n + 1 < o + 2) /\ n + 1 >= o + 5
    BY <1>0, <1>4
  <2>2. StateAt(f, n) = Refused /\ StateAt(f, n + 1) = Refused
    BY <2>1, <1>1, <1>4 DEF StateAt
  <2>3. Refused.fault = "unexpected_part"
    BY DEF Refused, Parser
  <2> QED BY <2>2, <2>3, Stopped DEF Steps
<1>5. CASE n >= o + 2 /\ n < h /\ ~(f.lines[1] = "O" /\ n >= o + 5)
  BY <1>1, <1>5, StepsHead
<1>6. CASE n >= h /\ f.lines[1] # "O"
  <2>1. CASE f.then = "cut" \/ n < e + d
    BY <2>1, <1>1, <1>6, StepsData
  <2>2. CASE f.then # "cut" /\ n >= e + d
    BY <2>2, <1>1, <1>6, StepsAfter
  <2>3. n < e + d \/ n >= e + d
    BY <1>0
  <2> QED BY <2>1, <2>2, <2>3
<1>7. \/ n < o
      \/ n >= o /\ n < o + 2
      \/ n >= o + 2 /\ n < h
      \/ n >= h /\ n >= o + 5
  BY <1>0
<1> QED BY <1>2, <1>3, <1>4, <1>5, <1>6, <1>7

(* Induction over the numbers in a set.                                    *)
LEMMA SetInduction ==
  ASSUME NEW S, 0 \in S, \A n \in Nat : n \in S => n + 1 \in S
  PROVE  Nat \subseteq S
<1> SUFFICES ASSUME Nat \ S # {} PROVE FALSE
  OBVIOUS
<1> DEFINE x == Min(Nat \ S)
<1>1. x \in Nat \ S /\ \A y \in Nat \ S : x <= y
  BY LeastIsIn
<1>2. x # 0 /\ x - 1 \in Nat /\ x - 1 \notin S
  <2> HIDE DEF x
  <2>1. x # 0 /\ x - 1 \in Nat /\ x = (x - 1) + 1
    BY <1>1
  <2> QED BY <1>1, <2>1
<1> QED BY <1>1, <1>2

(* The states g of a parser p as it goes through a piece.                  *)
Traces(g, n, p, piece) ==
  /\ n \in Nat /\ n = Len(piece) /\ g = [i \in 0..n |-> g[i]] /\ g[0] = p
  /\ \A i \in 1..n : g[i] = ParseByte(g[i - 1], piece[i])

(* The parser's states after each byte of a piece, given as a function,    *)
(* are what Parse goes through.                                            *)
LEMMA Parsed ==
  ASSUME NEW p, NEW piece, NEW n, NEW g, Traces(g, n, p, piece)
  PROVE  Parse(p, piece) = g[n]
<1>0. /\ n \in Nat /\ n = Len(piece) /\ g = [i \in 0..n |-> g[i]] /\ g[0] = p
      /\ \A i \in 1..n : g[i] = ParseByte(g[i - 1], piece[i])
  BY DEF Traces
<1> DEFINE Unrolled(f) == [i \in 0..n |-> IF i = 0 THEN p ELSE ParseByte(f[i - 1], piece[i])]
           upTo == CHOOSE f : f = Unrolled(f)
<1>1. Parse(p, piece) = upTo[n]
  BY <1>0 DEF Parse
<1>2. g = Unrolled(g)
  <2>1. \A i \in 0..n : g[i] = IF i = 0 THEN p ELSE ParseByte(g[i - 1], piece[i])
    <3> SUFFICES ASSUME NEW i \in 0..n PROVE g[i] = IF i = 0 THEN p ELSE ParseByte(g[i - 1], piece[i])
      OBVIOUS
    <3>1. i = 0 \/ i \in 1..n
      BY <1>0
    <3> QED BY <3>1, <1>0
  <2>2. [i \in 0..n |-> g[i]] = [i \in 0..n |-> IF i = 0 THEN p ELSE ParseByte(g[i - 1], piece[i])]
    BY <2>1
  <2> QED BY <2>2, <1>0
<1>3. upTo = Unrolled(upTo)
  <2> HIDE DEF Unrolled
  <2> QED BY <1>2
<1> HIDE DEF upTo
<1>4. upTo[0] = p /\ \A i \in 1..n : upTo[i] = ParseByte(upTo[i - 1], piece[i])
  <2>1. \A i \in 0..n : Unrolled(upTo)[i] = IF i = 0 THEN p ELSE ParseByte(upTo[i - 1], piece[i])
    OBVIOUS
  <2>2. 0 \in 0..n /\ \A i \in 1..n : i \in 0..n /\ i # 0
    BY <1>0
  <2> HIDE DEF Unrolled
  <2>3. \A i \in 0..n : upTo[i] = IF i = 0 THEN p ELSE ParseByte(upTo[i - 1], piece[i])
    BY <2>1, <1>3
  <2> QED BY <2>2, <2>3
<1> HIDE DEF Unrolled
<1> DEFINE Same == {i \in Nat : i <= n => upTo[i] = g[i]}
<1>5. 0 \in Same
  BY <1>0, <1>4
<1>6. ASSUME NEW i \in Nat, i \in Same PROVE i + 1 \in Same
  <2> SUFFICES ASSUME i + 1 <= n PROVE upTo[i + 1] = g[i + 1]
    OBVIOUS
  <2>1. i <= n /\ i + 1 \in 1..n /\ (i + 1) - 1 = i
    BY <1>0
  <2>2. upTo[i] = g[i]
    BY <2>1, <1>6
  <2>3. upTo[i + 1] = ParseByte(upTo[(i + 1) - 1], piece[i + 1]) /\ g[i + 1] = ParseByte(g[(i + 1) - 1], piece[i + 1])
    BY <2>1, <1>0, <1>4
  <2> QED BY <2>1, <2>2, <2>3
<1>7. n \in Same
  <2> HIDE DEF Same
  <2> QED BY <1>0, <1>5, <1>6, SetInduction
<1> QED BY <1>0, <1>1, <1>7

(* So the parser is where the text has it, however it came there.          *)
LEMMA Parses ==
  ASSUME NEW f, WellComposed(f), NEW n \in Nat, NEW m \in Nat, n <= m, m <= Len(Canonical(f))
  PROVE  Parse(StateAt(f, n), SubSeq(Canonical(f), n + 1, m)) = StateAt(f, m)
<1>1. PICK c, k, l, piece : c = Canonical(f) /\ k = m - n /\ l = Len(c) /\ piece = SubSeq(c, n + 1, m)
  OBVIOUS
<1>2. k \in Nat /\ n + k = m /\ l \in Nat /\ n <= m /\ m <= l /\ c \in Seq(Symbols)
  <2>1. k \in Nat /\ n + k = m
    BY <1>1
  <2>2. l \in Nat /\ c \in Seq(Symbols)
    BY <1>1, Made
  <2> QED BY <2>1, <2>2, <1>1
<1>3. Len(piece) = k /\ \A i \in 1..k : piece[i] = c[n + i]
  <2>1. PICK x : x = n + 1
    OBVIOUS
  <2>2. x \in Nat /\ 1 <= x /\ x <= m + 1 /\ m <= Len(c) /\ m - x + 1 = k
    BY <2>1, <1>1, <1>2
  <2>3. Len(piece) = m - x + 1 /\ \A i \in 1..(m - x + 1) : piece[i] = c[x + i - 1]
    BY <2>1, <2>2, <1>1, <1>2, Stretch
  <2>4. \A i \in 1..k : x + i - 1 = n + i
    BY <2>1
  <2> QED BY <2>2, <2>3, <2>4
<1> DEFINE g == [i \in 0..k |-> StateAt(f, n + i)]
<1>4. g = [i \in 0..k |-> g[i]]
  OBVIOUS
<1>5. g[0] = StateAt(f, n) /\ g[k] = StateAt(f, m)
  BY <1>2
<1>6. ASSUME NEW i \in 1..k PROVE g[i] = ParseByte(g[i - 1], piece[i])
  <2>1. PICK j : j = n + (i - 1)
    OBVIOUS
  <2>2. j \in Nat /\ j < l /\ j + 1 = n + i /\ i - 1 \in 0..k /\ i \in 0..k
    BY <2>1, <1>2
  <2>3. ParseByte(StateAt(f, j), c[j + 1]) = StateAt(f, j + 1)
    BY <2>2, <1>1, AllSteps DEF Steps
  <2>4. g[i - 1] = StateAt(f, j) /\ g[i] = StateAt(f, j + 1)
    BY <2>1, <2>2
  <2>5. piece[i] = c[j + 1]
    BY <2>2, <1>3
  <2> HIDE DEF g
  <2> QED BY <2>3, <2>4, <2>5
<1> HIDE DEF g
<1>7. Parse(StateAt(f, n), piece) = g[k]
  <2>1. PICK p : p = StateAt(f, n)
    OBVIOUS
  <2>2. Traces(g, k, p, piece)
    BY <2>1, <1>2, <1>3, <1>4, <1>5, <1>6 DEF Traces
  <2>3. Parse(p, piece) = g[k]
    BY <2>2, Parsed
  <2> QED BY <2>1, <2>3
<1> QED BY <1>1, <1>5, <1>7

(* The first state is that of a new parser.                                *)
LEMMA Starts ==
  ASSUME NEW f, WellComposed(f)
  PROVE  StateAt(f, 0) = NewParser
<1>1. PICK o, c : o = Len(Open) /\ c = Canonical(f)
  OBVIOUS
<1>2. 0 < o /\ c \in Seq(Symbols)
  <2>1. o \in Nat /\ o >= 2 /\ c \in Seq(Symbols)
    BY <1>1, Made
  <2> QED BY <2>1
<1>3. StateAt(f, 0) = [NewParser EXCEPT !.held = SubSeq(c, 1, 0)]
  BY <1>1, <1>2 DEF StateAt
<1>4. SubSeq(c, 1, 0) = <<>>
  BY <1>2
<1>5. [NewParser EXCEPT !.held = <<>>] = NewParser
  BY DEF NewParser
<1> QED BY <1>3, <1>4, <1>5

----------------------------------------------------------------------------
(* The framer over a form's bytes: where it finds the close delimiter,     *)
(* what it carries over, and what it hands on, however the bytes are cut.  *)

(* An occurrence in a stretch of a text is one in the text.                *)
LEMMA OccursWithin ==
  ASSUME NEW S, NEW s \in Seq(S), NEW w \in Seq(S), NEW i \in Nat, NEW j \in Nat,
         1 <= i, i <= j + 1, j <= Len(s), NEW y
  PROVE  Occurs(w, SubSeq(s, i, j), y) <=>
           y \in Nat \ {0} /\ y + Len(w) - 1 <= j - i + 1 /\ Occurs(w, s, i + y - 1)
<1>1. PICK t, l, x : t = SubSeq(s, i, j) /\ l = Len(w) /\ x = j - i + 1
  OBVIOUS
<1>2. Len(t) = x /\ (\A n \in 1..x : t[n] = s[i + n - 1]) /\ l \in Nat /\ Len(s) \in Nat /\ x \in Nat
  <2>1. Len(t) = j - i + 1 /\ \A n \in 1..(j - i + 1) : t[n] = s[i + n - 1]
    BY <1>1, Stretch
  <2>2. x \in Nat /\ l \in Nat
    BY <1>1
  <2> QED BY <2>1, <2>2, <1>1
<1>3. ASSUME y \in Nat \ {0}, y + l - 1 <= x
      PROVE  Occurs(w, t, y) <=> Occurs(w, s, i + y - 1)
  <2>1. PICK z : z = i + y - 1
    OBVIOUS
  <2>2. z \in Nat \ {0} /\ z + l - 1 <= Len(s)
    <3>1. z + l - 1 <= j
      BY <1>1, <1>2, <1>3, <2>1
    <3> QED BY <3>1, <2>1, <1>2, <1>3
  <2>3. \A n \in 1..l : t[y + n - 1] = s[z + n - 1]
    <3> SUFFICES ASSUME NEW n \in 1..l PROVE t[y + n - 1] = s[z + n - 1]
      OBVIOUS
    <3>1. PICK q : q = y + n - 1
      OBVIOUS
    <3>2. q \in 1..x /\ i + q - 1 = z + n - 1
      BY <3>1, <2>1, <1>2, <1>3
    <3> QED BY <3>1, <3>2, <1>2
  <2>4. Occurs(w, t, y) <=> \A n \in 1..l : t[y + n - 1] = w[n]
    BY <1>1, <1>2, <1>3 DEF Occurs
  <2>5. Occurs(w, s, z) <=> \A n \in 1..l : s[z + n - 1] = w[n]
    BY <1>1, <2>2 DEF Occurs
  <2> QED BY <2>1, <2>3, <2>4, <2>5
<1>4. Occurs(w, t, y) => y \in Nat \ {0} /\ y + l - 1 <= x
  BY <1>1, <1>2 DEF Occurs
<1> QED BY <1>1, <1>3, <1>4

(* Where a word is found in a stretch of a text it first occurs in at s.   *)
FirstAt(w, text, s) ==
  /\ s \in Int /\ \A x : Occurs(w, text, x) => s <= x
  /\ s + Len(w) - 1 <= Len(text) => Occurs(w, text, s)

(* Find in a stretch of a text: the first place of a word, if it is in the *)
(* stretch whole.                                                          *)
LEMMA FindsIn ==
  ASSUME NEW S, NEW text \in Seq(S), NEW w \in Seq(S), NEW i \in Nat, NEW j \in Nat,
         1 <= i, i <= j + 1, j <= Len(text), NEW s, FirstAt(w, text, s)
  PROVE  /\ s >= i /\ s + Len(w) - 1 <= j => Find(SubSeq(text, i, j), w) = s - i + 1
         /\ s + Len(w) - 1 > j => Find(SubSeq(text, i, j), w) = 0
<1>1. PICK t, l, x, at : t = SubSeq(text, i, j) /\ l = Len(w) /\ x = j - i + 1 /\ at = Find(t, w)
  OBVIOUS
<1>2. t \in Seq(S) /\ l \in Nat /\ x \in Nat /\ Len(text) \in Nat /\ s \in Int
  BY <1>1, Stretch DEF FirstAt
<1>3. /\ at \in Nat
      /\ at = 0 => \A y : ~Occurs(w, t, y)
      /\ at # 0 => Occurs(w, t, at)
      /\ \A y : Occurs(w, t, y) => at <= y
  BY <1>1, <1>2, Finds
<1>4. ASSUME NEW y
      PROVE  Occurs(w, t, y) <=> y \in Nat \ {0} /\ y + l - 1 <= x /\ Occurs(w, text, i + y - 1)
  BY <1>1, OccursWithin
<1>5. ASSUME at # 0 PROVE at + l - 1 <= x /\ s <= i + at - 1
  <2>1. at + l - 1 <= x /\ Occurs(w, text, i + at - 1)
    BY <1>3, <1>4, <1>5
  <2>2. PICK y : y = i + at - 1
    OBVIOUS
  <2>3. s <= y
    BY <2>1, <2>2 DEF FirstAt
  <2> QED BY <2>1, <2>2, <2>3
<1>6. ASSUME s >= i, s + l - 1 <= j PROVE at = s - i + 1
  <2>1. PICK y : y = s - i + 1
    OBVIOUS
  <2>2. y \in Nat \ {0} /\ y + l - 1 <= x /\ i + y - 1 = s
    BY <2>1, <1>1, <1>2, <1>6
  <2>3. Occurs(w, text, s)
    <3>1. s + l - 1 <= Len(text)
      BY <1>2, <1>6
    <3> QED BY <3>1, <1>1 DEF FirstAt
  <2>4. Occurs(w, t, y)
    BY <2>2, <2>3, <1>4
  <2>5. at <= y /\ at # 0
    BY <2>4, <1>3
  <2>6. s <= i + at - 1
    BY <2>5, <1>5
  <2> QED BY <2>1, <2>5, <2>6, <1>2, <1>3
<1>7. ASSUME s + l - 1 > j PROVE at = 0
  <2> SUFFICES ASSUME at # 0 PROVE FALSE
    OBVIOUS
  <2>1. at + l - 1 <= x /\ s <= i + at - 1
    BY <1>5
  <2>2. s + l - 1 <= j
    BY <2>1, <1>1, <1>2, <1>3
  <2> QED BY <2>2, <1>2, <1>7
<1> QED BY <1>1, <1>6, <1>7

(* The close delimiter ends the body where it first occurs, also when it   *)
(* comes in two reads.                                                     *)
Back(m) == IF m >= Len(Close) - 1 THEN m - (Len(Close) - 1) ELSE 0

(* What is kept of a text after m symbols: the last ones, too few for a    *)
(* close delimiter.                                                        *)
Kept(text, m) == SubSeq(text, Back(m) + 1, m)

LEMMA Backs ==
  ASSUME NEW m \in Nat
  PROVE  /\ Back(m) \in Nat /\ Back(m) <= m /\ m - Back(m) <= Len(Close) - 1
         /\ Back(m) # 0 => m - Back(m) = Len(Close) - 1
         /\ Len(Close) \in Nat /\ Len(Close) >= 6 /\ Len(Close) - 1 \in Nat
<1>1. PICK w : w = Len(Close)
  OBVIOUS
<1>2. w \in Nat /\ w >= 6
  <2>1. PICK o : o = Len(Open)
    OBVIOUS
  <2>2. o \in Nat /\ o >= 2 /\ w = o + 4
    BY <1>1, <2>1, Marks
  <2> QED BY <2>2
<1>3. Back(m) = IF m >= w - 1 THEN m - (w - 1) ELSE 0
  BY <1>1 DEF Back
<1> QED BY <1>1, <1>2, <1>3

(* EndIn finds the close delimiter where the chunk brings the last of it,  *)
(* and only there.                                                         *)
LEMMA Ends ==
  ASSUME NEW text \in Seq(Symbols), NEW m \in Nat, NEW n \in Nat, m <= n, n <= Len(text),
         NEW e \in Int, e > m, FirstAt(Close, text, e - Len(Close) + 1)
  PROVE  EndIn(Kept(text, m), SubSeq(text, m + 1, n)) = IF e <= n THEN e - m ELSE 0
<1>1. PICK w, a, b, s, i, chunk, carry :
        /\ w = Len(Close) /\ a = Back(m) /\ b = (IF n <= m + w - 1 THEN n ELSE m + w - 1)
        /\ s = e - w + 1 /\ i = m + 1 /\ chunk = SubSeq(text, m + 1, n) /\ carry = SubSeq(text, a + 1, m)
  OBVIOUS
<1>2. /\ w \in Nat /\ w >= 6 /\ a \in Nat /\ a <= m /\ m - a <= w - 1 /\ (a # 0 => m - a = w - 1)
      /\ Len(text) \in Nat /\ Close \in Seq(Symbols)
  <2>1. Close \in Seq(Symbols) /\ Len(text) \in Nat
    BY Marks
  <2> QED BY <2>1, <1>1, Backs
<1>3. /\ b \in Nat /\ m <= b /\ b <= n /\ b <= m + w - 1 /\ s \in Int /\ s + w - 1 = e /\ i \in Nat /\ 1 <= i
      /\ i <= n + 1 /\ i <= b + 1 /\ n - i + 1 = n - m
  <2>1. b = (IF n <= m + w - 1 THEN n ELSE m + w - 1) /\ s = e - w + 1 /\ i = m + 1 /\ w \in Nat /\ w >= 6
    BY <1>1, <1>2
  <2>2. b \in Nat /\ m <= b /\ b <= n /\ b <= m + w - 1
    BY <2>1
  <2>3. s \in Int /\ s + w - 1 = e
    BY <2>1
  <2>4. i \in Nat /\ 1 <= i /\ i <= n + 1 /\ i <= b + 1 /\ n - i + 1 = n - m
    BY <2>1, <2>2
  <2> QED BY <2>2, <2>3, <2>4
<1>4. Len(chunk) = n - m /\ Len(carry) = m - a
  <2>1. Len(chunk) = n - i + 1
    BY <1>1, <1>3, Stretch
  <2>2. PICK x : x = a + 1
    OBVIOUS
  <2>3. x \in Nat /\ 1 <= x /\ x <= m + 1 /\ m <= Len(text) /\ m - x + 1 = m - a
    BY <2>2, <1>2
  <2>4. Len(carry) = m - x + 1
    <3>1. Len(SubSeq(text, x, m)) = m - x + 1
      BY <2>3, <1>2, Stretch
    <3> QED BY <3>1, <2>2, <1>1
  <2> QED BY <2>1, <2>3, <2>4, <1>3
<1>5. SubSeq(chunk, 1, Min({Len(chunk), w - 1})) = SubSeq(text, i, b)
  <2>1. Min({Len(chunk), w - 1}) = b - m
    <3>1. PICK x, y : x = n - m /\ y = w - 1
      OBVIOUS
    <3>2. x \in Int /\ y \in Int
      BY <3>1, <1>2
    <3>3. Min({x, y}) = IF x <= y THEN x ELSE y
      BY <3>2, MinOfTwo
    <3>4. (IF x <= y THEN x ELSE y) = b - m
      BY <3>1, <1>1, <1>2, <1>3
    <3> QED BY <3>1, <3>3, <3>4, <1>4
  <2>2. PICK x : x = b - m
    OBVIOUS
  <2>3. x \in Nat /\ 1 <= x + 1 /\ x <= n - i + 1 /\ i + 1 - 1 = i /\ i + x - 1 = b
    <3>1. i = m + 1
      BY <1>1
    <3>2. x \in Nat /\ x <= n - m
      BY <2>2, <1>3
    <3>3. i + x - 1 = b
      BY <2>2, <3>1, <1>3
    <3> QED BY <3>1, <3>2, <3>3
  <2>4. SubSeq(SubSeq(text, i, n), 1, x) = SubSeq(text, i + 1 - 1, i + x - 1)
    BY <2>3, <1>3, StretchWithin
  <2> QED BY <2>1, <2>2, <2>3, <2>4, <1>1
<1>6. carry \o SubSeq(text, i, b) = SubSeq(text, a + 1, b)
  <2>1. PICK x : x = a + 1
    OBVIOUS
  <2>2. x \in Nat /\ 1 <= x /\ x <= m + 1 /\ m <= b /\ b <= Len(text) /\ b \in Nat
    BY <2>1, <1>2, <1>3
  <2>3. SubSeq(text, x, m) \o SubSeq(text, m + 1, b) = SubSeq(text, x, b)
    BY <2>2, Stretches
  <2> QED BY <2>1, <2>3, <1>1
<1>7. PICK straddle, at : straddle = Find(SubSeq(text, a + 1, b), Close) /\ at = Find(chunk, Close)
  OBVIOUS
<1>8. EndIn(Kept(text, m), chunk) =
        IF straddle > 0 THEN straddle + w - 1 - (m - a) ELSE IF at > 0 THEN at + w - 1 ELSE 0
  <2>1. Kept(text, m) = carry
    BY <1>1 DEF Kept
  <2>2. Find(carry \o SubSeq(chunk, 1, Min({Len(chunk), w - 1})), Close) = straddle
    BY <1>5, <1>6, <1>7
  <2> QED BY <2>1, <2>2, <1>1, <1>4, <1>7 DEF EndIn
<1>9. FirstAt(Close, text, s)
  BY <1>1
<1>10. /\ s >= a + 1 /\ e <= b => straddle = s - (a + 1) + 1
       /\ e > b => straddle = 0
  <2>1. PICK x : x = a + 1
    OBVIOUS
  <2>2. x \in Nat /\ 1 <= x /\ x <= b + 1 /\ b \in Nat /\ b <= Len(text)
    BY <2>1, <1>2, <1>3
  <2>3. /\ s >= x /\ s + Len(Close) - 1 <= b => Find(SubSeq(text, x, b), Close) = s - x + 1
        /\ s + Len(Close) - 1 > b => Find(SubSeq(text, x, b), Close) = 0
    BY <2>2, <1>2, <1>9, FindsIn
  <2>4. s + Len(Close) - 1 = e
    BY <1>1, <1>3
  <2> QED BY <2>1, <2>3, <2>4, <1>7
<1>11. /\ s >= i /\ e <= n => at = s - i + 1
       /\ e > n => at = 0
  <2>1. /\ s >= i /\ s + Len(Close) - 1 <= n => Find(SubSeq(text, i, n), Close) = s - i + 1
        /\ s + Len(Close) - 1 > n => Find(SubSeq(text, i, n), Close) = 0
    <3>1. i \in Nat /\ 1 <= i /\ i <= n + 1 /\ Close \in Seq(Symbols)
      BY <1>2, <1>3
    <3> QED BY <3>1, <1>9, FindsIn
  <2>2. s + Len(Close) - 1 = e
    BY <1>1, <1>3
  <2> QED BY <2>1, <2>2, <1>1, <1>7
<1>12. ASSUME e <= b PROVE s >= a + 1
  <2>1. CASE a # 0
    <3>1. m - a = w - 1
      BY <2>1, <1>2
    <3> QED BY <3>1, <1>1, <1>2
  <2>2. CASE a = 0
    <3>1. s + Len(Close) - 1 <= Len(text)
      <4>1. e <= Len(text)
        BY <1>2, <1>3, <1>12
      <4>2. s + Len(Close) - 1 = e
        BY <1>1, <1>3
      <4> QED BY <4>1, <4>2
    <3>2. s \in Nat \ {0}
      BY <3>1, <1>9 DEF FirstAt, Occurs
    <3> QED BY <2>2, <3>2
  <2> QED BY <2>1, <2>2
<1>13. CASE e <= b
  <2>1. straddle = s - a /\ straddle > 0 /\ straddle + w - 1 - (m - a) = e - m /\ e <= n
    <3>1. straddle = s - (a + 1) + 1
      BY <1>10, <1>12, <1>13
    <3> QED BY <3>1, <1>2, <1>3, <1>12, <1>13
  <2> QED BY <2>1, <1>1, <1>8
<1>14. CASE e > b
  <2>1. straddle = 0
    BY <1>10, <1>14
  <2>2. CASE e <= n
    <3>1. s >= i
      BY <2>2, <1>1, <1>2, <1>3, <1>14
    <3>2. at = s - i + 1
      BY <2>2, <3>1, <1>11
    <3>3. at > 0 /\ at + w - 1 = e - m
      BY <3>1, <3>2, <1>1, <1>2, <1>3
    <3> QED BY <2>1, <2>2, <3>3, <1>1, <1>8
  <2>3. CASE e > n
    <3>1. at = 0
      BY <2>3, <1>11
    <3> QED BY <2>1, <2>3, <3>1, <1>1, <1>8
  <2> QED BY <2>2, <2>3
<1> QED BY <1>3, <1>13, <1>14

(* What is carried over of a chunk is what is kept of the text.            *)
LEMMA Carries ==
  ASSUME NEW text \in Seq(Symbols), NEW m \in Nat, NEW n \in Nat, m <= n, n <= Len(text)
  PROVE  Carried(Kept(text, m), SubSeq(text, m + 1, n)) = Kept(text, n)
<1>1. PICK w, v, a, i, x, chunk, carry :
        /\ w = Len(Close) /\ v = w - 1 /\ a = Back(m) /\ i = m + 1 /\ x = a + 1
        /\ chunk = SubSeq(text, i, n) /\ carry = SubSeq(text, x, m)
  OBVIOUS
<1>2. /\ w \in Nat /\ w >= 6 /\ v \in Nat /\ a \in Nat /\ a <= m /\ m - a <= v /\ (a # 0 => m - a = v)
      /\ i \in Nat /\ 1 <= i /\ i <= n + 1 /\ x \in Nat /\ 1 <= x /\ x <= m + 1 /\ x <= n + 1
      /\ n - i + 1 = n - m /\ n - x + 1 = n - a
  <2>1. w \in Nat /\ w >= 6 /\ a \in Nat /\ a <= m /\ m - a <= w - 1 /\ (a # 0 => m - a = w - 1)
    BY <1>1, Backs
  <2>2. v = w - 1 /\ i = m + 1 /\ x = a + 1
    BY <1>1
  <2> QED BY <2>1, <2>2
<1>3. chunk \in Seq(Symbols) /\ Len(chunk) = n - m
  <2>1. chunk \in Seq(Symbols) /\ Len(chunk) = n - i + 1
    <3>1. i \in Nat /\ 1 <= i /\ i <= n + 1 /\ chunk = SubSeq(text, i, n)
      BY <1>1, <1>2
    <3> QED BY <3>1, Stretch
  <2> QED BY <2>1, <1>2
<1>4. carry \o chunk = SubSeq(text, x, n)
  <2>1. SubSeq(text, x, m) \o SubSeq(text, m + 1, n) = SubSeq(text, x, n)
    BY <1>2, Stretches
  <2> QED BY <2>1, <1>1
<1>5. Kept(text, m) = carry
  BY <1>1 DEF Kept
<1>6. Carried(Kept(text, m), chunk) = LastOf(IF n - m >= v THEN chunk ELSE SubSeq(text, x, n), v)
  BY <1>1, <1>3, <1>4, <1>5 DEF Carried
<1>7. n >= v => Kept(text, n) = SubSeq(text, n - v + 1, n)
  BY <1>1 DEF Kept, Back
<1>8. CASE n - m >= v
  <2>1. v <= n - i + 1 /\ n >= v
    BY <1>2, <1>8
  <2>2. LastOf(SubSeq(text, i, n), v) = SubSeq(text, n - v + 1, n)
    BY <2>1, <1>2, LastStretch
  <2> QED BY <2>1, <2>2, <1>1, <1>6, <1>7, <1>8
<1>9. CASE n - m < v /\ n - a >= v
  <2>1. v <= n - x + 1 /\ n >= v /\ ~(n - m >= v)
    BY <1>2, <1>9
  <2>2. LastOf(SubSeq(text, x, n), v) = SubSeq(text, n - v + 1, n)
    BY <2>1, <1>2, LastStretch
  <2> QED BY <2>1, <2>2, <1>1, <1>6, <1>7
<1>10. CASE n - m < v /\ n - a < v
  <2>1. a = 0 /\ n < v /\ x = 1 /\ ~(n - m >= v) /\ n - x + 1 = n
    <3>1. a = 0
      BY <1>2, <1>10
    <3>2. x = a + 1
      BY <1>1
    <3> QED BY <3>1, <3>2, <1>2, <1>10
  <2>2. PICK whole : whole = SubSeq(text, x, n)
    OBVIOUS
  <2>3. whole \in Seq(Symbols) /\ Len(whole) = n
    <3>1. whole \in Seq(Symbols) /\ Len(whole) = n - x + 1
      BY <2>2, <1>2, Stretch
    <3> QED BY <3>1, <2>1
  <2>4. LastOf(whole, v) = whole
    <3>1. v >= Len(whole)
      BY <2>1, <2>3, <1>2
    <3> QED BY <3>1, <2>3, <1>2, Lasts
  <2>5. Kept(text, n) = SubSeq(text, 1, n)
    <3>1. Back(n) = 0
      BY <2>1, <1>1, <1>2 DEF Back
    <3> QED BY <3>1 DEF Kept
  <2> QED BY <2>1, <2>2, <2>4, <2>5, <1>1, <1>6
<1> QED BY <1>2, <1>8, <1>9, <1>10

(* The body from its first delimiter on, and where its close delimiter     *)
(* ends; a body that is cut off has none.                                  *)
FromFirst(b, f) == SubSeq(b, Len(f.pre) + 1, Len(b))

(* Where a form's close delimiter ends, and what of its bytes the framer   *)
(* passes on.                                                              *)
CloseAt(f) == IF f.then = "cut" THEN Len(Canonical(f)) + 1 ELSE BodyEnd(f)

WireText(t, f) ==
  /\ t \in Seq(Symbols) /\ Len(t) = BodyEnd(f) + Len(f.epilogue)
  /\ \A i \in 1..BodyEnd(f) : t[i] = Canonical(f)[i]
  /\ FirstAt(Close, t, CloseAt(f) - Len(Close) + 1)

(* The bytes of a form from its first delimiter on.                        *)
LEMMA WiresText ==
  ASSUME NEW f, WellComposed(f), NEW b, FormBytes(b, f)
  PROVE  /\ WireText(FromFirst(b, f), f)
         /\ Len(b) = Len(f.pre) + Len(FromFirst(b, f))
         /\ \A k \in Nat : Len(f.pre) <= k /\ k <= Len(b) =>
              SubSeq(b, Len(f.pre) + 1, k) = SubSeq(FromFirst(b, f), 1, k - Len(f.pre))
<1>1. PICK p, x, t, c, e, l, w, v :
        /\ p = Len(f.pre) /\ x = p + 1 /\ t = FromFirst(b, f) /\ c = Canonical(f) /\ e = BodyEnd(f)
        /\ l = Len(f.epilogue) /\ w = Len(Close) /\ v = Len(b)
  OBVIOUS
<1>2. /\ p \in Nat /\ l \in Nat /\ c \in Seq(Symbols) /\ e \in Nat /\ e <= Len(c) /\ v = p + e + l
      /\ b \in Seq(Symbols) /\ (\A i \in 1..e : b[p + i] = c[i]) /\ w \in Nat /\ w >= 6 /\ x = p + 1
  <2>1. f.pre \in Seq(Symbols) /\ f.epilogue \in Seq(Symbols)
    BY Composed
  <2>2. p \in Nat /\ l \in Nat
    BY <2>1, <1>1
  <2>3. c \in Seq(Symbols) /\ e \in Nat /\ e <= Len(c)
    BY <1>1, Bodies
  <2>4. b \in Seq(Symbols) /\ v = p + e + l /\ \A i \in 1..e : b[p + i] = c[i]
    BY <1>1 DEF FormBytes
  <2>5. w \in Nat /\ w >= 6
    BY <1>1, Backs
  <2> QED BY <2>2, <2>3, <2>4, <2>5, <1>1
<1>3. /\ x \in Nat /\ 1 <= x /\ x <= v + 1 /\ v \in Nat /\ v - x + 1 = e + l
  BY <1>2
<1>4. t = SubSeq(b, x, v)
  BY <1>1 DEF FromFirst
<1>5. t \in Seq(Symbols) /\ Len(t) = e + l /\ \A i \in 1..(e + l) : t[i] = b[x + i - 1]
  <2>1. v <= Len(b)
    BY <1>1, <1>3
  <2>2. t \in Seq(Symbols) /\ Len(t) = v - x + 1 /\ \A i \in 1..(v - x + 1) : t[i] = b[x + i - 1]
    BY <2>1, <1>2, <1>3, <1>4, Stretch
  <2> QED BY <2>2, <1>3
<1>6. \A i \in 1..e : t[i] = c[i]
  <2> SUFFICES ASSUME NEW i \in 1..e PROVE t[i] = c[i]
    OBVIOUS
  <2>1. i \in 1..(e + l) /\ x + i - 1 = p + i
    BY <1>2
  <2> QED BY <2>1, <1>2, <1>5
<1>7. FirstAt(Close, t, CloseAt(f) - w + 1)
  <2>1. PICK s, at : at = CloseAt(f) /\ s = at - w + 1
    OBVIOUS
  <2>2. /\ f.then = "cut" => at = e + 1 /\ e = Len(c)
        /\ f.then # "cut" => at = e
    BY <2>1, <1>1 DEF CloseAt, BodyEnd
  <2>3. at \in Nat /\ s \in Int /\ s + w - 1 = at
    <3>1. at \in Nat
      BY <2>2, <1>2
    <3> QED BY <3>1, <2>1, <1>2
  <2>4. /\ f.then # "cut" => Occurs(Close, c, e - w + 1)
        /\ \A i : Occurs(Close, c, i) => f.then # "cut" /\ i >= e - w + 1
    BY <1>1, OnlyClose
  <2>5. f.then = "cut" => l = 0
    <3>1. f.then = "cut" => f.epilogue = <<>>
      BY DEF WellComposed
    <3> QED BY <3>1, <1>1
  <2>6. ASSUME NEW i, Occurs(Close, t, i) PROVE s <= i
    <3>1. i \in Nat \ {0} /\ i + w - 1 <= e + l /\ \A j \in 1..w : t[i + j - 1] = Close[j]
      BY <2>6, <1>1, <1>5 DEF Occurs
    <3>2. CASE i + w - 1 <= e
      <4>1. \A j \in 1..w : t[i + j - 1] = c[i + j - 1]
        <5> SUFFICES ASSUME NEW j \in 1..w PROVE t[i + j - 1] = c[i + j - 1]
          OBVIOUS
        <5>1. PICK y : y = i + j - 1
          OBVIOUS
        <5>2. y \in 1..e
          <6>1. i \in Nat \ {0} /\ w \in Nat /\ e \in Nat /\ j \in Nat \ {0} /\ j <= w /\ i + w - 1 <= e
            BY <3>1, <3>2, <1>2
          <6>2. i + j - 1 \in 1..e
            BY <6>1
          <6> QED BY <5>1, <6>2
        <5> QED BY <5>1, <5>2, <1>6
      <4>2. i + w - 1 <= Len(c)
        BY <3>1, <3>2, <1>2
      <4>3. Occurs(Close, c, i)
        BY <4>1, <4>2, <3>1, <1>1 DEF Occurs
      <4>4. f.then # "cut" /\ i >= e - w + 1
        BY <4>3, <2>4
      <4> QED BY <4>4, <3>1, <2>1, <2>2, <1>2
    <3>3. CASE i + w - 1 > e
      <4>1. f.then # "cut"
        BY <3>1, <3>3, <2>5, <1>2
      <4>2. at = e
        BY <4>1, <2>2
      <4>3. i \in Nat \ {0} /\ w \in Nat /\ e \in Nat /\ i + w - 1 > e /\ s = e - w + 1
        BY <4>2, <3>1, <3>3, <2>1, <1>2
      <4> QED BY <4>3
    <3> QED BY <3>1, <3>2, <3>3, <1>2
  <2>7. ASSUME s + w - 1 <= Len(t) PROVE Occurs(Close, t, s)
    <3>1. at <= e + l
      BY <2>3, <2>7, <1>5
    <3>2. f.then # "cut" /\ at = e
      BY <3>1, <2>2, <2>5, <1>2
    <3>3. Occurs(Close, c, s)
      BY <3>2, <2>1, <2>4
    <3>4. s \in Nat \ {0} /\ \A j \in 1..w : c[s + j - 1] = Close[j]
      BY <3>3, <1>1 DEF Occurs
    <3>5. \A j \in 1..w : t[s + j - 1] = c[s + j - 1]
      <4> SUFFICES ASSUME NEW j \in 1..w PROVE t[s + j - 1] = c[s + j - 1]
        OBVIOUS
      <4>1. PICK y : y = s + j - 1
        OBVIOUS
      <4>2. y \in 1..e
        BY <4>1, <3>2, <3>4, <2>3, <1>2
      <4> QED BY <4>1, <4>2, <1>6
    <3> QED BY <3>4, <3>5, <2>7, <1>1 DEF Occurs
  <2> QED BY <2>1, <2>3, <2>6, <2>7, <1>1 DEF FirstAt
<1>8. ASSUME NEW k \in Nat, p <= k, k <= v PROVE SubSeq(b, x, k) = SubSeq(t, 1, k - p)
  <2>1. PICK y : y = k - p
    OBVIOUS
  <2>2. y \in Nat /\ 1 <= y + 1 /\ y <= v - x + 1 /\ x + 1 - 1 = x /\ x + y - 1 = k /\ v <= Len(b)
    <3>1. v - x + 1 = v - p /\ v <= Len(b) /\ x = p + 1 /\ p \in Nat /\ v \in Nat
      <4>1. v <= Len(b) /\ x = p + 1
        BY <1>1, <1>3
      <4> QED BY <4>1, <1>2, <1>3
    <3> QED BY <3>1, <2>1, <1>8
  <2>3. SubSeq(SubSeq(b, x, v), 1, y) = SubSeq(b, x + 1 - 1, x + y - 1)
    BY <2>2, <1>2, <1>3, StretchWithin
  <2> QED BY <2>1, <2>2, <2>3, <1>4
<1>9. WireText(t, f)
  BY <1>1, <1>5, <1>6, <1>7 DEF WireText
<1>10. v = p + Len(t)
  BY <1>2, <1>5
<1> QED BY <1>1, <1>8, <1>9, <1>10

(* A framer, field by field, and one that has not refused.                 *)
FramerOf(buf, carry, started, closed, epilogue, refused) ==
  [buf |-> buf, carry |-> carry, started |-> started, closed |-> closed,
   epilogue |-> epilogue, refused |-> refused]
Framing(buf, carry, started, closed, epilogue) ==
  FramerOf(buf, carry, started, closed, epilogue, FALSE)

(* The parser is handed the end of a body with a line end after it.        *)
LEMMA LineEnd ==
  ASSUME NEW f, WellComposed(f), f.then # "cut"
  PROVE  /\ Len(Canonical(f)) = BodyEnd(f) + 2
         /\ Canonical(f)[BodyEnd(f) + 1] = "r" /\ Canonical(f)[BodyEnd(f) + 2] = "l"
<1>1. PICK c, o, x, k, e : c = Canonical(f) /\ o = Len(Open) /\ x = DataEnd(f) /\ k = Len(c) /\ e = BodyEnd(f)
  OBVIOUS
<1>2. FormText(c, f) /\ o \in Nat /\ x \in Nat /\ k \in Nat
  BY <1>1, Made
<1>3. e = k - 2
  BY <1>1 DEF BodyEnd
<1>4. c[k - 1] = "r" /\ c[k] = "l"
  <2>1. CASE f.then = "close"
    <3>1. ClosedText(c, x)
      BY <2>1, <1>1, <1>2 DEF FormText
    <3>2. k = x + o + 6 /\ c[x + o + 5] = "r" /\ c[x + o + 6] = "l"
      BY <3>1, <1>1 DEF ClosedText
    <3>3. k - 1 = x + o + 5
      BY <3>2, <1>2
    <3> QED BY <3>2, <3>3
  <2>2. CASE f.then # "close"
    <3>1. PICK line : AnotherText(c, x, line)
      <4>1. f.then \in {"second", "other"}
        BY <2>2, Composed
      <4> QED BY <4>1, <1>1, <1>2 DEF FormText
    <3>2. k = x + 2 * o + 16 /\ c[x + 2 * o + 15] = "r" /\ c[x + 2 * o + 16] = "l"
      BY <3>1, <1>1 DEF AnotherText
    <3>3. k - 1 = x + 2 * o + 15
      BY <3>2, <1>2
    <3> QED BY <3>2, <3>3
  <2> QED BY <2>1, <2>2
<1>5. k = e + 2 /\ e + 1 = k - 1 /\ e + 2 = k
  BY <1>2, <1>3
<1> QED BY <1>1, <1>4, <1>5

(* A close delimiter that ends in this chunk, and one that does not.       *)
LEMMA Closings ==
  ASSUME NEW f, WellComposed(f), f.then # "cut", NEW m \in Nat, m <= BodyEnd(f)
  PROVE  SubSeq(Canonical(f), m + 1, BodyEnd(f)) \o CRLF = SubSeq(Canonical(f), m + 1, Len(Canonical(f)))
<1>1. PICK c, e, i, j, k : c = Canonical(f) /\ e = BodyEnd(f) /\ i = m + 1 /\ j = e + 1 /\ k = Len(c)
  OBVIOUS
<1>2. c \in Seq(Symbols) /\ e \in Nat /\ k = e + 2 /\ c[e + 1] = "r" /\ c[e + 2] = "l"
  BY <1>1, Bodies, LineEnd
<1>3. /\ i \in Nat /\ 1 <= i /\ i <= e + 1 /\ e <= k /\ k \in Nat /\ k <= Len(c)
      /\ j \in Nat /\ 1 <= j /\ j + 1 <= Len(c) /\ j <= Len(c) + 1 /\ j + 1 = k
  <2>1. i \in Nat /\ 1 <= i /\ i <= e + 1 /\ e <= k /\ k \in Nat /\ j \in Nat /\ 1 <= j /\ j + 1 = k
    BY <1>1, <1>2
  <2>2. Len(c) = k
    BY <1>1
  <2> QED BY <2>1, <2>2
<1>4. SubSeq(c, i, e) \o SubSeq(c, e + 1, k) = SubSeq(c, i, k)
  BY <1>2, <1>3, Stretches
<1>5. SubSeq(c, j, j + 1) = <<c[j], c[j + 1]>>
  BY <1>2, <1>3, Short
<1>6. SubSeq(c, e + 1, k) = CRLF
  <2>1. j + 1 = e + 2
    BY <1>2, <1>3
  <2>2. SubSeq(c, j, k) = <<"r", "l">>
    BY <2>1, <1>1, <1>2, <1>3, <1>5
  <2> QED BY <2>2, <1>1 DEF CRLF
<1> QED BY <1>1, <1>4, <1>6

(* A framer with some of it changed.                                       *)
LEMMA SetBuf ==
  ASSUME NEW buf, NEW carry, NEW started, NEW closed, NEW epilogue, NEW refused, NEW buf2
  PROVE  [FramerOf(buf, carry, started, closed, epilogue, refused) EXCEPT !.buf = buf2] =
           FramerOf(buf2, carry, started, closed, epilogue, refused)
BY DEF FramerOf

LEMMA SetCarry ==
  ASSUME NEW buf, NEW carry, NEW started, NEW closed, NEW epilogue, NEW refused, NEW carry2
  PROVE  [FramerOf(buf, carry, started, closed, epilogue, refused) EXCEPT !.carry = carry2] =
           FramerOf(buf, carry2, started, closed, epilogue, refused)
BY DEF FramerOf

LEMMA SetStarted ==
  ASSUME NEW buf, NEW carry, NEW started, NEW closed, NEW epilogue, NEW refused, NEW started2
  PROVE  [FramerOf(buf, carry, started, closed, epilogue, refused) EXCEPT !.started = started2] =
           FramerOf(buf, carry, started2, closed, epilogue, refused)
BY DEF FramerOf

LEMMA SetClosed ==
  ASSUME NEW buf, NEW carry, NEW started, NEW closed, NEW epilogue, NEW refused, NEW closed2
  PROVE  [FramerOf(buf, carry, started, closed, epilogue, refused) EXCEPT !.closed = closed2] =
           FramerOf(buf, carry, started, closed2, epilogue, refused)
BY DEF FramerOf

LEMMA SetEpilogue ==
  ASSUME NEW buf, NEW carry, NEW started, NEW closed, NEW epilogue, NEW refused, NEW epilogue2
  PROVE  [FramerOf(buf, carry, started, closed, epilogue, refused) EXCEPT !.epilogue = epilogue2] =
           FramerOf(buf, carry, started, closed, epilogue2, refused)
BY DEF FramerOf

LEMMA SetRefused ==
  ASSUME NEW buf, NEW carry, NEW started, NEW closed, NEW epilogue, NEW refused, NEW refused2
  PROVE  [FramerOf(buf, carry, started, closed, epilogue, refused) EXCEPT !.refused = refused2] =
           FramerOf(buf, carry, started, closed, epilogue, refused2)
BY DEF FramerOf

(* A framer that closes, and one that carries over.                        *)
LEMMA FramingClosed ==
  ASSUME NEW carry, NEW epilogue
  PROVE  [Framing(<<>>, carry, TRUE, FALSE, 0) EXCEPT !.closed = TRUE, !.epilogue = epilogue]
           = Framing(<<>>, carry, TRUE, TRUE, epilogue)
<1>1. PICK fr, yes, no, none, zero :
        fr = Framing(<<>>, carry, TRUE, FALSE, 0) /\ yes = TRUE /\ no = FALSE /\ none = <<>> /\ zero = 0
  OBVIOUS
<1>2. [fr EXCEPT !.closed = TRUE, !.epilogue = epilogue] = [[fr EXCEPT !.closed = TRUE] EXCEPT !.epilogue = epilogue]
  OBVIOUS
<1>3. [FramerOf(none, carry, yes, no, zero, no) EXCEPT !.closed = yes] = FramerOf(none, carry, yes, yes, zero, no)
  BY SetClosed
<1>4. [FramerOf(none, carry, yes, yes, zero, no) EXCEPT !.epilogue = epilogue] = FramerOf(none, carry, yes, yes, epilogue, no)
  BY SetEpilogue
<1> QED BY <1>1, <1>2, <1>3, <1>4, Zenon DEF Framing

LEMMA FramingCarries ==
  ASSUME NEW carry, NEW last
  PROVE  [Framing(<<>>, carry, TRUE, FALSE, 0) EXCEPT !.carry = last] = Framing(<<>>, last, TRUE, FALSE, 0)
<1>1. PICK yes, no, none, zero : yes = TRUE /\ no = FALSE /\ none = <<>> /\ zero = 0
  OBVIOUS
<1>2. [FramerOf(none, carry, yes, no, zero, no) EXCEPT !.carry = last] = FramerOf(none, last, yes, no, zero, no)
  BY SetCarry
<1> QED BY <1>1, <1>2, Zenon DEF Framing

(* What a started framer passes on of a chunk.                             *)
LEMMA Passes ==
  ASSUME NEW f, WellComposed(f), NEW t, WireText(t, f), NEW m \in Nat, m < CloseAt(f),
         NEW n \in Nat, m <= n, n <= Len(t)
  PROVE  /\ CloseAt(f) <= n =>
              Pass(Framing(<<>>, Kept(t, m), TRUE, FALSE, 0), SubSeq(t, m + 1, n)) =
                [framer |-> Framing(<<>>, Kept(t, m), TRUE, TRUE, n - CloseAt(f)),
                 out |-> SubSeq(Canonical(f), m + 1, Len(Canonical(f)))]
         /\ n < CloseAt(f) =>
              Pass(Framing(<<>>, Kept(t, m), TRUE, FALSE, 0), SubSeq(t, m + 1, n)) =
                [framer |-> Framing(<<>>, Kept(t, n), TRUE, FALSE, 0),
                 out |-> SubSeq(Canonical(f), m + 1, n)]
<1>1. PICK c, e, at, chunk, fr, end :
        /\ c = Canonical(f) /\ e = BodyEnd(f) /\ at = CloseAt(f) /\ chunk = SubSeq(t, m + 1, n)
        /\ fr = Framing(<<>>, Kept(t, m), TRUE, FALSE, 0) /\ end = EndIn(Kept(t, m), chunk)
  OBVIOUS
<1>2. /\ c \in Seq(Symbols) /\ Len(c) \in Nat /\ e \in Nat /\ e <= Len(c)
      /\ t \in Seq(Symbols) /\ (\A i \in 1..e : t[i] = c[i])
      /\ FirstAt(Close, t, at - Len(Close) + 1)
  <2>1. c \in Seq(Symbols) /\ e \in Nat /\ e <= Len(c)
    BY <1>1, Bodies
  <2> QED BY <2>1, <1>1 DEF WireText
<1>3. /\ f.then = "cut" => at = e + 1 /\ e = Len(c) /\ Len(t) = e
      /\ f.then # "cut" => at = e
  <2>1. f.then = "cut" => Len(f.epilogue) = 0
    BY DEF WellComposed
  <2>2. Len(t) = e + Len(f.epilogue)
    BY <1>1 DEF WireText
  <2>3. f.then = "cut" => at = Len(c) + 1 /\ e = Len(c)
    BY <1>1 DEF CloseAt, BodyEnd
  <2>4. f.then # "cut" => at = e
    BY <1>1 DEF CloseAt
  <2> QED BY <2>1, <2>2, <2>3, <2>4, <1>2
<1>4. at \in Int /\ at > m
  BY <1>1, <1>2, <1>3
<1>5. end = IF at <= n THEN at - m ELSE 0
  BY <1>1, <1>2, <1>4, Ends
<1>6. fr.carry = Kept(t, m)
  <2>1. PICK carry, yes, no, none, zero : carry = Kept(t, m) /\ yes = TRUE /\ no = FALSE /\ none = <<>> /\ zero = 0
    OBVIOUS
  <2>2. FramerOf(none, carry, yes, no, zero, no).carry = carry
    BY DEF FramerOf
  <2> QED BY <2>1, <2>2, <1>1, Zenon DEF Framing
<1>7. Pass(fr, chunk) =
        IF end > 0 THEN [framer |-> [fr EXCEPT !.closed = TRUE, !.epilogue = Len(chunk) - end],
                         out |-> SubSeq(chunk, 1, end) \o CRLF]
        ELSE [framer |-> [fr EXCEPT !.carry = Carried(fr.carry, chunk)], out |-> chunk]
  BY <1>1, <1>6 DEF Pass
<1>8. PICK i : i = m + 1
  OBVIOUS
<1>9. i \in Nat /\ 1 <= i /\ i <= n + 1 /\ n <= Len(t) /\ n - i + 1 = n - m /\ Len(chunk) = n - m
  <2>1. i \in Nat /\ 1 <= i /\ i <= n + 1 /\ n <= Len(t) /\ n - i + 1 = n - m
    BY <1>8
  <2>2. Len(SubSeq(t, i, n)) = n - i + 1
    BY <2>1, <1>2, Stretch
  <2> QED BY <2>1, <2>2, <1>1, <1>8
(* The text of the body is the text for the parser up to the body's end.   *)
<1>10. ASSUME NEW y \in Nat, m <= y, y <= e, y <= Len(t) PROVE SubSeq(t, i, y) = SubSeq(c, i, y)
  <2>1. PICK u, v : u = SubSeq(t, i, y) /\ v = SubSeq(c, i, y)
    OBVIOUS
  <2>2. i <= y + 1 /\ y <= Len(c)
    BY <1>2, <1>8, <1>10
  <2>3. u \in Seq(Symbols) /\ Len(u) = y - i + 1 /\ \A j \in 1..(y - i + 1) : u[j] = t[i + j - 1]
    BY <2>1, <2>2, <1>2, <1>9, <1>10, Stretch
  <2>4. v \in Seq(Symbols) /\ Len(v) = y - i + 1 /\ \A j \in 1..(y - i + 1) : v[j] = c[i + j - 1]
    BY <2>1, <2>2, <1>2, <1>9, <1>10, Stretch
  <2>5. \A j \in 1..(y - i + 1) : t[i + j - 1] = c[i + j - 1]
    <3> SUFFICES ASSUME NEW j \in 1..(y - i + 1) PROVE t[i + j - 1] = c[i + j - 1]
      OBVIOUS
    <3>1. PICK q : q = i + j - 1
      OBVIOUS
    <3>2. q \in 1..e
      BY <3>1, <1>2, <1>9, <1>10
    <3> QED BY <3>1, <3>2, <1>2
  <2>6. u = v
    BY <2>3, <2>4, <2>5, SameText
  <2> QED BY <2>1, <2>6
<1>11. CASE at <= n
  <2>1. f.then # "cut" /\ at = e /\ e <= Len(t) /\ m <= e
    BY <1>1, <1>2, <1>3, <1>9, <1>11
  <2>2. end = e - m /\ end > 0 /\ Len(chunk) - end = n - at /\ end \in Nat
    <3>1. end = at - m
      BY <1>5, <1>11
    <3>2. at > m /\ at = e /\ Len(chunk) = n - m /\ e \in Nat
      BY <2>1, <1>2, <1>4, <1>9
    <3> QED BY <3>1, <3>2
  <2>3. SubSeq(chunk, 1, end) = SubSeq(t, i, e)
    <3>1. 1 <= end + 1 /\ end <= n - i + 1 /\ i + 1 - 1 = i /\ i + end - 1 = e
      BY <2>1, <2>2, <1>2, <1>8, <1>9, <1>11
    <3>2. PICK one : one = 1
      OBVIOUS
    <3>3. one \in Nat /\ 1 <= one /\ one <= end + 1 /\ end <= n - i + 1 /\ i + one - 1 = i /\ i + end - 1 = e
      BY <3>1, <3>2, <2>2
    <3>4. SubSeq(SubSeq(t, i, n), one, end) = SubSeq(t, i + one - 1, i + end - 1)
      BY <3>3, <2>2, <1>2, <1>9, StretchWithin
    <3> QED BY <3>2, <3>3, <3>4, <1>1, <1>8
  <2>4. SubSeq(t, i, e) = SubSeq(c, i, e)
    <3>1. e \in Nat /\ m <= e /\ e <= e /\ e <= Len(t)
      BY <2>1, <1>2
    <3> QED BY <3>1, <1>10
  <2>5. SubSeq(c, i, e) \o CRLF = SubSeq(c, i, Len(c))
    BY <2>1, <1>1, <1>8, Closings
  <2>6. [fr EXCEPT !.closed = TRUE, !.epilogue = n - at] = Framing(<<>>, Kept(t, m), TRUE, TRUE, n - at)
    <3>1. PICK carry, x : carry = Kept(t, m) /\ x = n - at
      OBVIOUS
    <3>2. [Framing(<<>>, carry, TRUE, FALSE, 0) EXCEPT !.closed = TRUE, !.epilogue = x]
           = Framing(<<>>, carry, TRUE, TRUE, x)
      BY FramingClosed
    <3>3. fr = Framing(<<>>, carry, TRUE, FALSE, 0)
      BY <3>1, <1>1
    <3> QED BY <3>1, <3>2, <3>3
  <2>7. Pass(fr, chunk) = [framer |-> [fr EXCEPT !.closed = TRUE, !.epilogue = Len(chunk) - end],
                         out |-> SubSeq(chunk, 1, end) \o CRLF]
    BY <2>2, <1>7
  <2>8. Pass(fr, chunk) = [framer |-> Framing(<<>>, Kept(t, m), TRUE, TRUE, n - at), out |-> SubSeq(c, i, Len(c))]
    BY <2>2, <2>3, <2>4, <2>5, <2>6, <2>7
  <2>9. ~(n < at)
    BY <1>4, <1>11
  <2> QED BY <2>8, <2>9, <1>1, <1>8
<1>12. CASE n < at
  <2>1. end = 0 /\ ~(end > 0)
    BY <1>4, <1>5, <1>12
  <2>2. Carried(fr.carry, chunk) = Kept(t, n)
    <3>1. Carried(Kept(t, m), SubSeq(t, m + 1, n)) = Kept(t, n)
      BY <1>2, Carries
    <3> QED BY <3>1, <1>1, <1>6
  <2>3. chunk = SubSeq(c, i, n)
    <3>1. n <= e
      BY <1>2, <1>3, <1>9, <1>12
    <3>2. SubSeq(t, i, n) = SubSeq(c, i, n)
      BY <3>1, <1>9, <1>10
    <3> QED BY <3>2, <1>1, <1>8
  <2>4. [fr EXCEPT !.carry = Kept(t, n)] = Framing(<<>>, Kept(t, n), TRUE, FALSE, 0)
    <3>1. PICK carry, last : carry = Kept(t, m) /\ last = Kept(t, n)
      OBVIOUS
    <3>2. [Framing(<<>>, carry, TRUE, FALSE, 0) EXCEPT !.carry = last] = Framing(<<>>, last, TRUE, FALSE, 0)
      BY FramingCarries
    <3>3. fr = Framing(<<>>, carry, TRUE, FALSE, 0)
      BY <3>1, <1>1
    <3> QED BY <3>1, <3>2, <3>3
  <2>5. Pass(fr, chunk) = [framer |-> [fr EXCEPT !.carry = Carried(fr.carry, chunk)], out |-> chunk]
    BY <2>1, <1>7
  <2>6. Pass(fr, chunk) = [framer |-> Framing(<<>>, Kept(t, n), TRUE, FALSE, 0), out |-> SubSeq(c, i, n)]
    BY <2>2, <2>3, <2>4, <2>5
  <2>7. ~(at <= n)
    BY <1>4, <1>12
  <2> QED BY <2>6, <2>7, <1>1, <1>8
<1> QED BY <1>1, <1>4, <1>11, <1>12

(* The fields of a framer.                                                 *)
LEMMA FramerFields ==
  ASSUME NEW buf, NEW carry, NEW started, NEW closed, NEW epilogue, NEW refused
  PROVE  /\ FramerOf(buf, carry, started, closed, epilogue, refused).buf = buf
         /\ FramerOf(buf, carry, started, closed, epilogue, refused).carry = carry
         /\ FramerOf(buf, carry, started, closed, epilogue, refused).started = started
         /\ FramerOf(buf, carry, started, closed, epilogue, refused).closed = closed
         /\ FramerOf(buf, carry, started, closed, epilogue, refused).epilogue = epilogue
         /\ FramerOf(buf, carry, started, closed, epilogue, refused).refused = refused
BY DEF FramerOf

(* Feed once the framer is closed, started, or still looks for the first   *)
(* delimiter.                                                              *)
LEMMA FeedClosed ==
  ASSUME NEW carry, NEW epilogue, NEW chunk, NEW more, more = epilogue + Len(chunk)
  PROVE  Feed(Framing(<<>>, carry, TRUE, TRUE, epilogue), chunk)
           = [framer |-> Framing(<<>>, carry, TRUE, TRUE, more), out |-> <<>>]
<1>1. PICK fr, yes, no, none :
        fr = Framing(<<>>, carry, TRUE, TRUE, epilogue) /\ yes = TRUE /\ no = FALSE /\ none = <<>>
  OBVIOUS
<1>2. fr = FramerOf(none, carry, yes, yes, epilogue, no)
  BY <1>1, Zenon DEF Framing
<1>3. fr.closed = yes /\ fr.epilogue = epilogue
  BY <1>2, FramerFields
<1>4. fr.closed
  BY <1>1, <1>3, Zenon
<1>5. Feed(fr, chunk) = [framer |-> [fr EXCEPT !.epilogue = more], out |-> <<>>]
  BY <1>3, <1>4 DEF Feed
<1>6. [FramerOf(none, carry, yes, yes, epilogue, no) EXCEPT !.epilogue = more] = FramerOf(none, carry, yes, yes, more, no)
  <2>1. PICK m : m = more
    OBVIOUS
  <2> HIDE DEF Framing
  <2>2. [FramerOf(none, carry, yes, yes, epilogue, no) EXCEPT !.epilogue = m] = FramerOf(none, carry, yes, yes, m, no)
    BY SetEpilogue
  <2> QED BY <2>1, <2>2
<1> QED BY <1>1, <1>2, <1>5, <1>6, Zenon DEF Framing

LEMMA FeedStarted ==
  ASSUME NEW carry, NEW chunk
  PROVE  Feed(Framing(<<>>, carry, TRUE, FALSE, 0), chunk) = Pass(Framing(<<>>, carry, TRUE, FALSE, 0), chunk)
<1>1. PICK fr, yes, no, none, zero :
        fr = Framing(<<>>, carry, TRUE, FALSE, 0) /\ yes = TRUE /\ no = FALSE /\ none = <<>> /\ zero = 0
  OBVIOUS
<1>2. fr = FramerOf(none, carry, yes, no, zero, no)
  BY <1>1, Zenon DEF Framing
<1>3. fr.closed = no /\ fr.started = yes
  BY <1>2, FramerFields
<1>4. ~fr.closed /\ fr.started
  BY <1>1, <1>3, Zenon
<1>5. Feed(fr, chunk) = Pass(fr, chunk)
  BY <1>4 DEF Feed
<1> QED BY <1>1, <1>5

(* What feeding a framer that has not opened yet comes to.                 *)
FedNew(buf, chunk, all, opening, fed) ==
  /\ opening.is = "open" => fed = Pass(Framing(<<>>, <<>>, TRUE, FALSE, 0), opening.body)
  /\ opening.is # "open" =>
       /\ fed.out = <<>>
       /\ fed.framer.refused = (opening.is = "refused")
       /\ opening.is # "refused" => fed.framer = Framing(all, <<>>, FALSE, FALSE, 0)

LEMMA FeedNew ==
  ASSUME NEW buf, NEW chunk, NEW all, all = buf \o chunk, NEW opening, opening = Opening(all)
  PROVE  FedNew(buf, chunk, all, opening, Feed(Framing(buf, <<>>, FALSE, FALSE, 0), chunk))
<1>1. PICK fr, yes, no, none, zero, refused :
        fr = Framing(buf, <<>>, FALSE, FALSE, 0) /\ yes = TRUE /\ no = FALSE /\ none = <<>> /\ zero = 0
        /\ refused = (opening.is = "refused")
  OBVIOUS
<1>2. fr = FramerOf(buf, none, no, no, zero, no)
  BY <1>1, Zenon DEF Framing
<1>3. fr.closed = no /\ fr.started = no /\ fr.buf = buf
  BY <1>2, FramerFields
<1>4. ~fr.closed /\ ~fr.started
  BY <1>1, <1>3, Zenon
<1>5. Feed(fr, chunk) =
        IF opening.is = "open" THEN Pass([fr EXCEPT !.buf = <<>>, !.started = TRUE], opening.body)
        ELSE [framer |-> [fr EXCEPT !.buf = all, !.refused = opening.is = "refused"], out |-> <<>>]
  BY <1>3, <1>4 DEF Feed
<1>6. [fr EXCEPT !.buf = <<>>, !.started = TRUE] = Framing(<<>>, <<>>, TRUE, FALSE, 0)
  <2>1. [fr EXCEPT !.buf = <<>>, !.started = TRUE] = [[fr EXCEPT !.buf = none] EXCEPT !.started = yes]
    BY <1>1, Zenon
  <2>2. [FramerOf(buf, none, no, no, zero, no) EXCEPT !.buf = none] = FramerOf(none, none, no, no, zero, no)
    BY SetBuf
  <2>3. [FramerOf(none, none, no, no, zero, no) EXCEPT !.started = yes] = FramerOf(none, none, yes, no, zero, no)
    BY SetStarted
  <2> QED BY <2>1, <2>2, <2>3, <1>1, <1>2, Zenon DEF Framing
<1>7. [fr EXCEPT !.buf = all, !.refused = opening.is = "refused"] = FramerOf(all, none, no, no, zero, refused)
  <2>0. PICK whole : whole = all
    OBVIOUS
  <2>1. [fr EXCEPT !.buf = all, !.refused = opening.is = "refused"] = [[fr EXCEPT !.buf = whole] EXCEPT !.refused = refused]
    BY <2>0, <1>1, Zenon
  <2>2. [FramerOf(buf, none, no, no, zero, no) EXCEPT !.buf = whole] = FramerOf(whole, none, no, no, zero, no)
    BY SetBuf
  <2>3. [FramerOf(whole, none, no, no, zero, no) EXCEPT !.refused = refused] = FramerOf(whole, none, no, no, zero, refused)
    BY SetRefused
  <2> QED BY <2>0, <2>1, <2>2, <2>3, <1>2, Zenon
<1>8. ASSUME opening.is # "open"
      PROVE  /\ Feed(fr, chunk).out = <<>>
             /\ Feed(fr, chunk).framer = FramerOf(all, none, no, no, zero, refused)
  BY <1>5, <1>7, <1>8
<1>9. FramerOf(all, none, no, no, zero, refused).refused = refused
  <2>0. PICK whole : whole = all
    OBVIOUS
  <2>1. FramerOf(whole, none, no, no, zero, refused).refused = refused
    BY FramerFields
  <2> QED BY <2>0, <2>1
<1>10. opening.is # "refused" => FramerOf(all, none, no, no, zero, refused) = Framing(all, <<>>, FALSE, FALSE, 0)
  <2> SUFFICES ASSUME opening.is # "refused"
               PROVE  FramerOf(all, none, no, no, zero, refused) = Framing(all, <<>>, FALSE, FALSE, 0)
    OBVIOUS
  <2>1. refused = FALSE
    BY <1>1
  <2> QED BY <2>1, <1>1, Zenon DEF Framing
<1>11. opening.is = "open" => Feed(fr, chunk) = Pass(Framing(<<>>, <<>>, TRUE, FALSE, 0), opening.body)
  BY <1>5, <1>6
<1>12. PICK fed : fed = Feed(fr, chunk)
  OBVIOUS
<1>13. FedNew(buf, chunk, all, opening, fed)
  <2>1. opening.is # "open" => fed.framer.refused = (opening.is = "refused")
    BY <1>1, <1>8, <1>9, <1>12
  <2> QED BY <2>1, <1>8, <1>10, <1>11, <1>12 DEF FedNew
<1> QED BY <1>1, <1>12, <1>13

(* The framer of a form's bytes b once it has had k of them, and how much  *)
(* of the text the parser has then been handed.                            *)
FirstFrom(f) == Len(f.pre) + Len(Open)

(* The framer once it has had k of the bytes: before, in and after the     *)
(* body.                                                                   *)
Framed(f, b, fr, k) ==
  \/ k < FirstFrom(f) /\ fr = Framing(SubSeq(b, 1, k), <<>>, FALSE, FALSE, 0)
  \/ /\ k >= FirstFrom(f) /\ k - Len(f.pre) < CloseAt(f)
     /\ fr = Framing(<<>>, Kept(FromFirst(b, f), k - Len(f.pre)), TRUE, FALSE, 0)
  \/ /\ k >= FirstFrom(f) /\ k - Len(f.pre) >= CloseAt(f)
     /\ \E carry : fr = Framing(<<>>, carry, TRUE, TRUE, k - Len(f.pre) - CloseAt(f))
OutLen(f, k) ==
  IF k < FirstFrom(f) THEN 0
  ELSE IF k - Len(f.pre) < CloseAt(f) THEN k - Len(f.pre) ELSE Len(Canonical(f))

(* What feeding the bytes from k to n brings.                              *)
FeedsOn(f, b, fed, k, n) ==
  IF fed.framer.refused THEN MayRefusePreamble(f.pre)
  ELSE Framed(f, b, fed.framer, n) /\ fed.out = SubSeq(Canonical(f), OutLen(f, k) + 1, OutLen(f, n))

LEMMA NotRefused ==
  ASSUME NEW buf, NEW carry, NEW started, NEW closed, NEW epilogue
  PROVE  Framing(buf, carry, started, closed, epilogue).refused = FALSE
<1>1. PICK no : no = FALSE
  OBVIOUS
<1>2. FramerOf(buf, carry, started, closed, epilogue, no).refused = no
  BY FramerFields
<1> QED BY <1>1, <1>2, Zenon DEF Framing

Passed(f, t, m, l, fed) ==
  /\ CloseAt(f) <= l => /\ fed.framer = Framing(<<>>, Kept(t, m), TRUE, TRUE, l - CloseAt(f))
                        /\ fed.out = SubSeq(Canonical(f), m + 1, Len(Canonical(f)))
  /\ l < CloseAt(f) => /\ fed.framer = Framing(<<>>, Kept(t, l), TRUE, FALSE, 0)
                       /\ fed.out = SubSeq(Canonical(f), m + 1, l)

(* A chunk of the body is passed on, up to the close delimiter.            *)
LEMMA PassesOn ==
  ASSUME NEW f, WellComposed(f), NEW t, WireText(t, f), NEW m \in Nat, m < CloseAt(f),
         NEW l \in Nat, m <= l, l <= Len(t), NEW fed,
         fed = Pass(Framing(<<>>, Kept(t, m), TRUE, FALSE, 0), SubSeq(t, m + 1, l))
  PROVE  Passed(f, t, m, l, fed)
<1>1. CASE CloseAt(f) <= l
  <2>1. fed = [framer |-> Framing(<<>>, Kept(t, m), TRUE, TRUE, l - CloseAt(f)),
               out |-> SubSeq(Canonical(f), m + 1, Len(Canonical(f)))]
    BY <1>1, Passes
  <2>2. PICK x, y : x = Framing(<<>>, Kept(t, m), TRUE, TRUE, l - CloseAt(f))
                    /\ y = SubSeq(Canonical(f), m + 1, Len(Canonical(f)))
    OBVIOUS
  <2>3. [framer |-> x, out |-> y].framer = x /\ [framer |-> x, out |-> y].out = y
    OBVIOUS
  <2>4. fed.framer = x /\ fed.out = y
    BY <2>1, <2>2, <2>3
  <2>5. ~(l < CloseAt(f))
    <3>1. PICK at : at = CloseAt(f)
      OBVIOUS
    <3>2. at \in Int
      <4>1. BodyEnd(f) \in Nat /\ Len(Canonical(f)) \in Nat
        BY Bodies, Made
      <4> QED BY <3>1, <4>1 DEF CloseAt
    <3> QED BY <3>1, <3>2, <1>1
  <2> QED BY <2>2, <2>4, <2>5 DEF Passed
<1>2. CASE l < CloseAt(f)
  <2>1. fed = [framer |-> Framing(<<>>, Kept(t, l), TRUE, FALSE, 0), out |-> SubSeq(Canonical(f), m + 1, l)]
    BY <1>2, Passes
  <2>2. PICK x, y : x = Framing(<<>>, Kept(t, l), TRUE, FALSE, 0) /\ y = SubSeq(Canonical(f), m + 1, l)
    OBVIOUS
  <2>3. [framer |-> x, out |-> y].framer = x /\ [framer |-> x, out |-> y].out = y
    OBVIOUS
  <2>4. fed.framer = x /\ fed.out = y
    BY <2>1, <2>2, <2>3
  <2>5. ~(CloseAt(f) <= l)
    <3>1. PICK at : at = CloseAt(f)
      OBVIOUS
    <3>2. at \in Int
      <4>1. BodyEnd(f) \in Nat /\ Len(Canonical(f)) \in Nat
        BY Bodies, Made
      <4> QED BY <3>1, <4>1 DEF CloseAt
    <3> QED BY <3>1, <3>2, <1>2
  <2> QED BY <2>2, <2>4, <2>5 DEF Passed
<1>3. CloseAt(f) <= l \/ l < CloseAt(f)
  <2>1. BodyEnd(f) \in Nat /\ Len(Canonical(f)) \in Nat
    BY Bodies, Made
  <2>2. CloseAt(f) \in Int
    BY <2>1 DEF CloseAt
  <2> QED BY <2>2
<1> QED BY <1>1, <1>2, <1>3

(* However the bytes are cut, the framer hands on the body in order, from  *)
(* its first delimiter to its close delimiter, and refuses only a preamble *)
(* that may be refused.                                                    *)
LEMMA Feeds ==
  ASSUME NEW f, WellComposed(f), NEW b, FormBytes(b, f), NEW k \in Nat, NEW n \in Nat,
         k <= n, n <= Len(b), NEW fr, Framed(f, b, fr, k)
  PROVE  FeedsOn(f, b, Feed(fr, SubSeq(b, k + 1, n)), k, n)
<1>1. PICK p, o, t, c, at, x, chunk, fed :
        /\ p = Len(f.pre) /\ o = Len(Open) /\ t = FromFirst(b, f) /\ c = Canonical(f) /\ at = CloseAt(f)
        /\ x = FirstFrom(f) /\ chunk = SubSeq(b, k + 1, n) /\ fed = Feed(fr, chunk)
  OBVIOUS
<1>2. /\ p \in Nat /\ o \in Nat /\ o >= 2 /\ x = p + o /\ c \in Seq(Symbols) /\ at \in Nat /\ at > o
      /\ b \in Seq(Symbols) /\ Len(b) \in Nat /\ Len(t) \in Nat /\ Len(b) = p + Len(t) /\ WireText(t, f)
      /\ t \in Seq(Symbols)
  <2>1. p \in Nat
    <3>1. f.pre \in Seq(Symbols)
      BY Composed
    <3> QED BY <3>1, <1>1
  <2>2. o \in Nat /\ o >= 2 /\ x = p + o
    BY <1>1, Marks DEF FirstFrom
  <2>3. c \in Seq(Symbols) /\ at \in Nat /\ at > o
    <3>1. PICK e, l : e = BodyEnd(f) /\ l = Len(c)
      OBVIOUS
    <3>2. c \in Seq(Symbols) /\ e \in Nat /\ e <= l /\ e > o + 4 /\ l \in Nat
      BY <3>1, <1>1, Bodies
    <3>3. at = l + 1 \/ at = e
      BY <3>1, <1>1 DEF CloseAt
    <3> QED BY <3>2, <3>3, <2>2
  <2>4. b \in Seq(Symbols)
    BY DEF FormBytes
  <2>5. WireText(t, f) /\ Len(b) = p + Len(t)
    BY <1>1, WiresText
  <2>6. t \in Seq(Symbols)
    BY <2>5 DEF WireText
  <2>7. Len(b) \in Nat /\ Len(t) \in Nat
    BY <2>4, <2>6
  <2> QED BY <2>1, <2>2, <2>3, <2>4, <2>5, <2>6, <2>7
<1>3. \A i \in Nat : p <= i /\ i <= Len(b) => SubSeq(b, p + 1, i) = SubSeq(t, 1, i - p)
  BY <1>1, WiresText
<1>4. n - p <= Len(t) /\ Len(chunk) = n - k
  <2>1. n - p <= Len(t)
    BY <1>2
  <2>2. PICK i : i = k + 1
    OBVIOUS
  <2>3. i \in Nat /\ 1 <= i /\ i <= n + 1 /\ n - i + 1 = n - k
    BY <2>2
  <2>4. Len(SubSeq(b, i, n)) = n - i + 1
    BY <2>3, <1>2, Stretch
  <2> QED BY <2>1, <2>2, <2>3, <2>4, <1>1
(* What a pass over text brings, from m symbols on.                        *)
<1>5. ASSUME NEW m \in Nat, m < at, m <= n - p, n >= x, OutLen(f, k) = m,
             fed = Pass(Framing(<<>>, Kept(t, m), TRUE, FALSE, 0), SubSeq(t, m + 1, n - p))
      PROVE  FeedsOn(f, b, fed, k, n)
  <2>1. PICK l : l = n - p
    OBVIOUS
  <2>2. l \in Nat /\ m <= l /\ l <= Len(t)
    BY <2>1, <1>2, <1>4, <1>5
  <2>3. Passed(f, t, m, l, fed)
    <3>1. m < CloseAt(f) /\ WireText(t, f)
      BY <1>1, <1>2, <1>5
    <3>2. fed = Pass(Framing(<<>>, Kept(t, m), TRUE, FALSE, 0), SubSeq(t, m + 1, l))
      BY <2>1, <1>5
    <3> QED BY <2>2, <3>1, <3>2, PassesOn
  <2>4. CASE at <= l
    <3>1. fed.framer = Framing(<<>>, Kept(t, m), TRUE, TRUE, l - at) /\ fed.out = SubSeq(c, m + 1, Len(c))
      BY <2>3, <2>4, <1>1 DEF Passed
    <3>2. ~fed.framer.refused
      <4>1. Framing(<<>>, Kept(t, m), TRUE, TRUE, l - at).refused = FALSE
        BY NotRefused
      <4> QED BY <3>1, <4>1
    <3>3. ~(n < x) /\ ~(l < at)
      BY <2>2, <2>4, <1>2, <1>5
    <3>4. Framed(f, b, fed.framer, n)
      <4>1. n >= FirstFrom(f) /\ n - Len(f.pre) >= CloseAt(f) /\ n - Len(f.pre) - CloseAt(f) = l - at
        BY <2>1, <2>4, <1>1, <1>5
      <4> QED BY <3>1, <4>1 DEF Framed
    <3>5. OutLen(f, n) = Len(c)
      BY <3>3, <2>1, <1>1 DEF OutLen
    <3> QED BY <3>1, <3>2, <3>4, <3>5, <1>1, <1>5 DEF FeedsOn
  <2>5. CASE l < at
    <3>1. fed.framer = Framing(<<>>, Kept(t, l), TRUE, FALSE, 0) /\ fed.out = SubSeq(c, m + 1, l)
      BY <2>3, <2>5, <1>1 DEF Passed
    <3>2. ~fed.framer.refused
      <4>1. Framing(<<>>, Kept(t, l), TRUE, FALSE, 0).refused = FALSE
        BY NotRefused
      <4> QED BY <3>1, <4>1
    <3>3. ~(n < x)
      BY <1>2, <1>5
    <3>4. Framed(f, b, fed.framer, n)
      <4>1. n >= FirstFrom(f) /\ n - Len(f.pre) < CloseAt(f)
        BY <2>1, <2>5, <1>1, <1>5
      <4>2. fed.framer = Framing(<<>>, Kept(FromFirst(b, f), n - Len(f.pre)), TRUE, FALSE, 0)
        BY <3>1, <2>1, <1>1
      <4> QED BY <4>1, <4>2 DEF Framed
    <3>5. OutLen(f, n) = l
      BY <3>3, <2>1, <2>5, <1>1 DEF OutLen
    <3> QED BY <3>1, <3>2, <3>4, <3>5, <1>1, <1>5 DEF FeedsOn
  <2> QED BY <2>2, <2>4, <2>5, <1>2
<1>6. CASE k < x
  <2>1. fr = Framing(SubSeq(b, 1, k), <<>>, FALSE, FALSE, 0)
    <3>1. ~(k >= x)
      BY <1>2, <1>6
    <3>2. ~(k >= FirstFrom(f))
      BY <3>1, <1>1
    <3> QED BY <3>2 DEF Framed
  <2>2. PICK buf, all, opening : buf = SubSeq(b, 1, k) /\ all = SubSeq(b, 1, n) /\ opening = Opening(all)
    OBVIOUS
  <2>3. all = buf \o chunk
    <3>1. PICK one : one = 1
      OBVIOUS
    <3>2. one \in Nat /\ 1 <= one /\ one <= k + 1
      BY <3>1
    <3>3. b \in Seq(Symbols) /\ k \in Nat /\ n \in Nat /\ k <= n /\ n <= Len(b)
      BY <1>2
    <3>4. SubSeq(b, one, k) \o SubSeq(b, k + 1, n) = SubSeq(b, one, n)
      BY <3>2, <3>3, Stretches
    <3> QED BY <3>1, <3>4, <2>2, <1>1
  <2>4. OutLen(f, k) = 0
    BY <1>1, <1>6 DEF OutLen
  <2>5. IF n < x THEN opening.is \in {"more", "refused"} /\ (opening.is = "refused" => MayRefusePreamble(f.pre))
        ELSE opening = [is |-> "open", body |-> SubSeq(b, p + 1, n)]
    <3>1. LET op == Opening(SubSeq(b, 1, n)) IN
          IF n < Len(f.pre) + Len(Open)
            THEN op.is \in {"more", "refused"} /\ (op.is = "refused" => MayRefusePreamble(f.pre))
            ELSE op = [is |-> "open", body |-> SubSeq(b, Len(f.pre) + 1, n)]
      BY Opens
    <3> QED BY <3>1, <2>2, <1>1, <1>2
  <2>6. /\ opening.is = "open" => fed = Pass(Framing(<<>>, <<>>, TRUE, FALSE, 0), opening.body)
        /\ opening.is # "open" =>
             /\ fed.out = <<>>
             /\ fed.framer.refused = (opening.is = "refused")
             /\ opening.is # "refused" => fed.framer = Framing(all, <<>>, FALSE, FALSE, 0)
    <3>1. fed = Feed(Framing(buf, <<>>, FALSE, FALSE, 0), chunk)
      BY <2>1, <2>2, <1>1
    <3>2. all = buf \o chunk /\ opening = Opening(all)
      BY <2>2, <2>3
    <3>3. FedNew(buf, chunk, all, opening, Feed(Framing(buf, <<>>, FALSE, FALSE, 0), chunk))
      BY <3>2, FeedNew
    <3>4. FedNew(buf, chunk, all, opening, fed)
      BY <3>1, <3>3
    <3> QED BY <3>4 DEF FedNew
  <2>7. CASE n < x
    <3>1. CASE opening.is = "refused"
      <4>1. fed.framer.refused
        BY <2>6, <3>1
      <4>2. MayRefusePreamble(f.pre)
        BY <2>5, <2>7, <3>1
      <4>3. FeedsOn(f, b, fed, k, n)
        BY <4>1, <4>2 DEF FeedsOn
      <4> QED BY <4>3, <1>1
    <3>2. CASE opening.is = "more"
      <4>1. fed.out = <<>> /\ ~fed.framer.refused /\ fed.framer = Framing(all, <<>>, FALSE, FALSE, 0)
        BY <2>6, <3>2
      <4>2. Framed(f, b, fed.framer, n)
        BY <4>1, <2>2, <2>7, <1>1 DEF Framed
      <4>3. OutLen(f, n) = 0
        BY <2>7, <1>1 DEF OutLen
      <4>4. SubSeq(c, 0 + 1, 0) = <<>>
        BY <1>2
      <4> QED BY <4>1, <4>2, <4>3, <4>4, <2>4, <1>1 DEF FeedsOn
    <3> QED BY <3>1, <3>2, <2>5, <2>7
  <2>8. CASE n >= x
    <3>1. opening.is = "open" /\ opening.body = SubSeq(b, p + 1, n)
      BY <2>5, <2>8, <1>2
    <3>2. p <= n
      BY <2>8, <1>2
    <3>3. SubSeq(b, p + 1, n) = SubSeq(t, 0 + 1, n - p)
      <4>1. SubSeq(b, p + 1, n) = SubSeq(t, 1, n - p)
        BY <3>2, <1>3
      <4>2. 0 + 1 = 1
        OBVIOUS
      <4> QED BY <4>1, <4>2
    <3>4. Kept(t, 0) = <<>>
      <4>1. Back(0) = 0
        <5>1. Back(0) \in Nat /\ Back(0) <= 0
          BY Backs
        <5> QED BY <5>1
      <4>2. SubSeq(t, 0 + 1, 0) = <<>>
        BY <1>2
      <4> QED BY <4>1, <4>2 DEF Kept
    <3>5. fed = Pass(Framing(<<>>, Kept(t, 0), TRUE, FALSE, 0), SubSeq(t, 0 + 1, n - p))
      BY <3>1, <3>3, <3>4, <2>6
    <3>6. PICK m : m = 0
      OBVIOUS
    <3>7. m \in Nat /\ m < at /\ m <= n - p /\ OutLen(f, k) = m
      BY <3>2, <3>6, <2>4, <1>2
    <3>8. fed = Pass(Framing(<<>>, Kept(t, m), TRUE, FALSE, 0), SubSeq(t, m + 1, n - p))
      BY <3>5, <3>6
    <3>9. FeedsOn(f, b, fed, k, n)
      BY <3>7, <3>8, <2>8, <1>5
    <3> QED BY <3>9, <1>1
  <2> QED BY <2>7, <2>8, <1>1, <1>2
<1>7. CASE k >= x /\ k - p < at
  <2>1. PICK m : m = k - p
    OBVIOUS
  <2>2. m \in Nat /\ m < at /\ m <= n - p /\ n >= x
    BY <2>1, <1>2, <1>7
  <2>3. fr = Framing(<<>>, Kept(t, m), TRUE, FALSE, 0)
    <3>1. ~(k < x) /\ ~(k - p >= at)
      BY <1>2, <1>7
    <3>2. ~(k < FirstFrom(f)) /\ ~(k - Len(f.pre) >= CloseAt(f))
      BY <3>1, <1>1
    <3> QED BY <3>2, <2>1, <1>1 DEF Framed
  <2>4. OutLen(f, k) = m
    <3>1. ~(k < x) /\ k - p < at
      BY <1>2, <1>7
    <3>2. ~(k < FirstFrom(f)) /\ k - Len(f.pre) < CloseAt(f)
      BY <3>1, <1>1
    <3> QED BY <3>2, <2>1, <1>1 DEF OutLen
  <2>5. chunk = SubSeq(t, m + 1, n - p)
    <3>1. PICK i, y, q, v : i = m + 1 /\ y = n - p /\ q = p + 1 /\ v = Len(b)
      OBVIOUS
    <3>2. t = SubSeq(b, q, v)
      BY <3>1, <1>1 DEF FromFirst
    <3>3. /\ q \in Nat /\ 1 <= q /\ q <= v + 1 /\ v <= Len(b) /\ i \in Nat /\ y \in Nat /\ 1 <= i /\ i <= y + 1
          /\ y <= v - q + 1 /\ q + i - 1 = k + 1 /\ q + y - 1 = n /\ v \in Nat
      <4>1. v \in Nat /\ p \in Nat /\ n <= v /\ v <= Len(b) /\ p <= v
        BY <3>1, <2>2, <1>2
      <4>2. q \in Nat /\ 1 <= q /\ q <= v + 1 /\ i \in Nat /\ y \in Nat /\ 1 <= i /\ i <= y + 1
        BY <4>1, <3>1, <2>2, <1>2
      <4>3. y <= v - q + 1 /\ q + i - 1 = k + 1 /\ q + y - 1 = n
        BY <4>1, <3>1, <2>1, <2>2
      <4> QED BY <4>1, <4>2, <4>3
    <3>4. SubSeq(SubSeq(b, q, v), i, y) = SubSeq(b, q + i - 1, q + y - 1)
      BY <3>3, <1>2, StretchWithin
    <3> QED BY <3>1, <3>2, <3>3, <3>4, <1>1
  <2>6. fed = Pass(Framing(<<>>, Kept(t, m), TRUE, FALSE, 0), SubSeq(t, m + 1, n - p))
    <3>1. PICK carry : carry = Kept(t, m)
      OBVIOUS
    <3>2. Feed(Framing(<<>>, carry, TRUE, FALSE, 0), chunk) = Pass(Framing(<<>>, carry, TRUE, FALSE, 0), chunk)
      BY FeedStarted
    <3> QED BY <3>1, <3>2, <2>3, <2>5, <1>1
  <2>7. FeedsOn(f, b, fed, k, n)
    BY <2>2, <2>4, <2>6, <1>5
  <2> QED BY <2>7, <1>1
<1>8. CASE k >= x /\ k - p >= at
  <2>1. PICK carry : fr = Framing(<<>>, carry, TRUE, TRUE, k - p - at)
    <3>1. ~(k < x) /\ ~(k - p < at)
      BY <1>2, <1>8
    <3>2. ~(k < FirstFrom(f)) /\ ~(k - Len(f.pre) < CloseAt(f))
      BY <3>1, <1>1
    <3> QED BY <3>2, <1>1 DEF Framed
  <2>2. PICK epilogue, more : epilogue = k - p - at /\ more = epilogue + Len(chunk)
    OBVIOUS
  <2>3. more = n - p - at /\ n - p >= at /\ n >= x
    <3>1. epilogue = k - p - at /\ more = epilogue + (n - k)
      BY <2>2, <1>4
    <3> QED BY <3>1, <1>2, <1>8
  <2>4. fed = [framer |-> Framing(<<>>, carry, TRUE, TRUE, more), out |-> <<>>]
    <3>1. Feed(Framing(<<>>, carry, TRUE, TRUE, epilogue), chunk)
            = [framer |-> Framing(<<>>, carry, TRUE, TRUE, more), out |-> <<>>]
      BY <2>2, FeedClosed
    <3> QED BY <3>1, <2>1, <2>2, <1>1
  <2>5. fed.framer = Framing(<<>>, carry, TRUE, TRUE, n - p - at) /\ fed.out = <<>>
    BY <2>3, <2>4
  <2>6. ~fed.framer.refused
    <3>1. PICK y : y = n - p - at
      OBVIOUS
    <3>2. Framing(<<>>, carry, TRUE, TRUE, y).refused = FALSE
      BY NotRefused
    <3> QED BY <3>1, <3>2, <2>5
  <2>7. Framed(f, b, fed.framer, n)
    BY <2>3, <2>5, <1>1 DEF Framed
  <2>8. OutLen(f, k) = Len(c) /\ OutLen(f, n) = Len(c)
    <3>1. ~(k < x) /\ ~(k - p < at) /\ ~(n < x) /\ ~(n - p < at)
      BY <2>3, <1>2, <1>8
    <3> QED BY <3>1, <1>1 DEF OutLen
  <2>9. SubSeq(c, Len(c) + 1, Len(c)) = <<>>
    BY <1>2
  <2> QED BY <2>5, <2>6, <2>7, <2>8, <2>9, <1>1 DEF FeedsOn
<1> QED BY <1>2, <1>6, <1>7, <1>8

----------------------------------------------------------------------------
(* The header block, read apart from the parser for its Content-Type       *)
(* (_read_head, content_type_of_part).                                     *)

(* The blank line that ends a header block.                                *)
Blank == CRLF \o CRLF

LEMMA Blanks ==
  /\ Blank \in Seq(Symbols) /\ Len(Blank) = 4
  /\ Blank[1] = "r" /\ Blank[2] = "l" /\ Blank[3] = "r" /\ Blank[4] = "l"
<1>1. PICK s, t : s = CRLF /\ t = CRLF
  OBVIOUS
<1>2. /\ s \in Seq(Symbols) /\ Len(s) = 2 /\ s[1] = "r" /\ s[2] = "l"
      /\ t \in Seq(Symbols) /\ Len(t) = 2 /\ t[1] = "r" /\ t[2] = "l"
  BY <1>1, Marks
<1>3. /\ s \o t \in Seq(Symbols) /\ Len(s \o t) = Len(s) + Len(t)
      /\ \A n \in 1..Len(s) : (s \o t)[n] = s[n]
      /\ \A n \in 1..Len(t) : (s \o t)[Len(s) + n] = t[n]
  <2>1. \A x, y \in Seq(Symbols) :
          /\ x \o y \in Seq(Symbols) /\ Len(x \o y) = Len(x) + Len(y)
          /\ \A n \in 1..Len(x) : (x \o y)[n] = x[n]
          /\ \A n \in 1..Len(y) : (x \o y)[Len(x) + n] = y[n]
    BY Joined
  <2> QED BY <2>1, <1>2, Zenon
<1>4. (s \o t)[1] = "r" /\ (s \o t)[2] = "l"
  BY <1>2, <1>3
<1>5. (s \o t)[3] = "r" /\ (s \o t)[4] = "l"
  <2>1. (s \o t)[2 + 1] = t[1] /\ (s \o t)[2 + 2] = t[2] /\ 2 + 1 = 3 /\ 2 + 2 = 4
    BY <1>2, <1>3
  <2> QED BY <2>1, <1>2
<1> QED BY <1>1, <1>2, <1>3, <1>4, <1>5 DEF Blank

(* The header block of a form ends at its first empty line.                *)
LEMMA HeadEnds ==
  ASSUME NEW f, WellComposed(f)
  PROVE  FirstAt(Blank, Canonical(f), HeadSize(f.lines) - 3)
<1>1. PICK c, n, m, h, k : c = Canonical(f) /\ n = Len(Open) /\ m = Len(f.lines) /\ h = HeadSize(f.lines) /\ k = Len(c)
  OBVIOUS
<1>2. n \in Nat /\ n >= 2 /\ m \in Nat /\ m >= 1 /\ h = n + 4 + 3 * m /\ k \in Nat /\ k >= h
  <2>0. PICK e, d : e = DataEnd(f) /\ d = Len(f.data)
    OBVIOUS
  <2>1. k >= e /\ e = h + d /\ d \in Nat /\ k \in Nat /\ h \in Nat
    BY <2>0, <1>1, Made
  <2>2. n \in Nat /\ n >= 2 /\ m \in Nat /\ m >= 1 /\ h = n + 4 + 3 * m
    BY <1>1, Made
  <2>3. k >= h
    BY <2>1
  <2> QED BY <2>1, <2>2, <2>3
<1>3. /\ \A j \in 1..n : c[j] # "r"
      /\ c[n + 1] = "r" /\ c[n + 2] = "l" /\ c[h - 1] = "r" /\ c[h] = "l"
      /\ \A j \in 1..m : c[n + 3 * j] # "r" /\ c[n + 3 * j + 1] = "r" /\ c[n + 3 * j + 2] = "l"
  <2>1. PartText(c, f.lines, f.data)
    BY <1>1, Made
  <2>2. \A j \in 1..m : f.lines[j] # "r"
    BY <1>1, Composed
  <2>3. /\ \A j \in 1..n : c[j] # "r"
        /\ c[n + 1] = "r" /\ c[n + 2] = "l" /\ c[h - 1] = "r" /\ c[h] = "l"
        /\ \A j \in 1..m : c[n + 3 * j] = f.lines[j] /\ c[n + 3 * j + 1] = "r" /\ c[n + 3 * j + 2] = "l"
    BY <2>1, <1>1, Marks DEF PartText
  <2> QED BY <2>2, <2>3
<1>4. \A s : Occurs(Blank, c, s) <=>
        s \in Nat /\ s >= 1 /\ s + 3 <= k /\ c[s] = "r" /\ c[s + 1] = "l" /\ c[s + 2] = "r" /\ c[s + 3] = "l"
  <2> SUFFICES ASSUME NEW s
               PROVE  Occurs(Blank, c, s) <=>
                        s \in Nat /\ s >= 1 /\ s + 3 <= k /\ c[s] = "r" /\ c[s + 1] = "l" /\ c[s + 2] = "r" /\ c[s + 3] = "l"
    OBVIOUS
  <2>1. Occurs(Blank, c, s) <=> s \in Nat \ {0} /\ s + 4 - 1 <= k /\ \A j \in 1..4 : c[s + j - 1] = Blank[j]
    BY <1>1, Blanks DEF Occurs
  <2>2. CASE s \in Nat
    <3>1. s + 1 - 1 = s /\ s + 2 - 1 = s + 1 /\ s + 3 - 1 = s + 2 /\ s + 4 - 1 = s + 3
      BY <2>2
    <3>2. (\A j \in 1..4 : c[s + j - 1] = Blank[j]) <=> c[s] = "r" /\ c[s + 1] = "l" /\ c[s + 2] = "r" /\ c[s + 3] = "l"
      <4>1. \A j : j \in 1..4 <=> j \in {1, 2, 3, 4}
        OBVIOUS
      <4> QED BY <3>1, <4>1, Blanks
    <3> QED BY <2>1, <2>2, <3>1, <3>2
  <2>3. CASE s \notin Nat
    BY <2>1, <2>3
  <2> QED BY <2>2, <2>3
<1>5. Occurs(Blank, c, h - 3)
  <2>1. m \in 1..m /\ h - 3 = n + 3 * m + 1 /\ h - 2 = n + 3 * m + 2
    BY <1>2
  <2>2. c[h - 3] = "r" /\ c[h - 2] = "l"
    BY <2>1, <1>3
  <2>3. h - 3 \in Nat /\ h - 3 >= 1 /\ (h - 3) + 3 = h /\ (h - 3) + 1 = h - 2 /\ (h - 3) + 2 = h - 1
    BY <1>2
  <2> QED BY <2>2, <2>3, <1>2, <1>3, <1>4
<1>6. ASSUME NEW s, Occurs(Blank, c, s)
      PROVE  h - 3 <= s
  <2>1. s \in Nat /\ s >= 1 /\ c[s] = "r" /\ c[s + 2] = "r"
    BY <1>4, <1>6
  <2>2. c[s + 1] = "l"
    BY <1>4, <1>6
  <2> SUFFICES ASSUME s < h - 3 PROVE FALSE
    BY <1>2, <2>1
  <2>3. s > n
    BY <1>2, <1>3, <2>1
  <2>4. s # n + 1
    <3>1. 1 \in 1..m /\ (n + 1) + 2 = n + 3 * 1
      BY <1>2
    <3> QED BY <3>1, <2>1, <1>3
  <2>5. s # n + 2
    BY <2>1, <1>3
  <2>6. PICK t : t = s - n
    OBVIOUS
  <2>7. t \in Nat /\ t >= 3 /\ t <= 3 * m /\ s = n + t
    BY <2>1, <2>3, <2>4, <2>5, <2>6, <1>2
  <2>8. PICK j : j = t \div 3
    OBVIOUS
  <2>9. j \in Nat /\ t \in {3 * j, 3 * j + 1, 3 * j + 2} /\ j >= 1 /\ j <= m
    BY <2>7, <2>8, <1>2
  <2>10. j \in 1..m
    BY <2>9, <1>2
  <2>11. t # 3 * j
    BY <2>1, <2>7, <2>10, <1>3
  <2>12. t # 3 * j + 2
    <3>1. c[n + 3 * j + 2] = "l" /\ (t = 3 * j + 2 => s = n + 3 * j + 2)
      BY <2>7, <2>9, <2>10, <1>2, <1>3
    <3> QED BY <3>1, <2>1
  <2>13. t # 3 * j + 1
    <3> SUFFICES ASSUME t = 3 * j + 1 PROVE FALSE
      OBVIOUS
    <3>1. j < m
      BY <2>7, <2>9, <1>2
    <3>2. j + 1 \in 1..m /\ s + 2 = n + 3 * (j + 1)
      BY <3>1, <2>7, <2>9, <1>2
    <3> QED BY <3>2, <2>1, <1>3
  <2> QED BY <2>9, <2>11, <2>12, <2>13
<1>7. h - 3 \in Int /\ (h - 3) + Len(Blank) - 1 \in Int
  BY <1>2, Blanks
<1>8. FirstAt(Blank, c, h - 3)
  BY <1>5, <1>6, <1>7 DEF FirstAt
<1> QED BY <1>1, <1>8

(* The type read from a header block that came whole.                      *)
LEMMA HeadType ==
  ASSUME NEW f, WellComposed(f)
  PROVE  ContentTypeOfPart(SubSeq(Canonical(f), 1, HeadSize(f.lines) - 4)) = TypeOf(f.lines, TRUE)
<1>1. PICK c, n, m, h, ls, typed :
        /\ c = Canonical(f) /\ n = Len(Open) /\ m = Len(f.lines) /\ h = HeadSize(f.lines)
        /\ ls = f.lines /\ typed = TypeLines \cup {"A"}
  OBVIOUS
<1>2. /\ n \in Nat /\ n >= 2 /\ m \in Nat /\ m >= 1 /\ h = n + 4 + 3 * m /\ h <= Len(c) /\ c \in Seq(Symbols)
      /\ Len(c) \in Nat /\ DOMAIN ls = 1..m
  <2>0. PICK e, d, k : e = DataEnd(f) /\ d = Len(f.data) /\ k = Len(c)
    OBVIOUS
  <2>4. k >= e /\ e = h + d /\ d \in Nat /\ k \in Nat /\ h \in Nat
    BY <2>0, <1>1, Made
  <2>5. h <= k
    BY <2>4
  <2>1. Len(c) \in Nat /\ h <= Len(c)
    BY <2>0, <2>4, <2>5
  <2>2. n \in Nat /\ n >= 2 /\ m \in Nat /\ m >= 1 /\ h = n + 4 + 3 * m /\ c \in Seq(Symbols)
    BY <1>1, Made
  <2>3. DOMAIN ls = 1..m
    <3>1. f.lines \in Seq(Symbols)
      BY Composed
    <3> QED BY <3>1, <1>1
  <2> QED BY <2>1, <2>2, <2>3
<1>3. PICK x : x = SubSeq(c, n + 1, h - 4)
  OBVIOUS
<1>4. x \in Seq(Symbols) /\ Len(x) = 3 * m /\ \A i \in 1..3 * m : x[i] = c[n + i]
  <2>1. PICK i, j : i = n + 1 /\ j = h - 4
    OBVIOUS
  <2>2. i \in Nat /\ j \in Nat /\ 1 <= i /\ i <= j + 1 /\ j <= Len(c) /\ j - i + 1 = 3 * m
    BY <2>1, <1>2
  <2>3. /\ SubSeq(c, i, j) \in Seq(Symbols) /\ Len(SubSeq(c, i, j)) = j - i + 1
        /\ \A y \in 1..(j - i + 1) : SubSeq(c, i, j)[y] = c[i + y - 1]
    BY <2>2, <1>2, Stretch
  <2>4. \A y \in 1..3 * m : i + y - 1 = n + y
    BY <2>1, <1>2
  <2> QED BY <2>1, <2>2, <2>3, <2>4, <1>3
<1>5. /\ \A j \in 1..m : x[3 * j] = ls[j]
      /\ \A i \in 1..3 * m : i % 3 # 0 => x[i] \in {"r", "l"}
  <2>1. /\ c[n + 1] = "r" /\ c[n + 2] = "l"
        /\ \A j \in 1..m : c[n + 3 * j] = ls[j] /\ c[n + 3 * j + 1] = "r" /\ c[n + 3 * j + 2] = "l"
    <3>1. PartText(c, f.lines, f.data)
      BY <1>1, Made
    <3> QED BY <1>1, <3>1 DEF PartText
  <2>2. \A j \in 1..m : x[3 * j] = ls[j]
    <3>1. \A j \in 1..m : 3 * j \in 1..3 * m
      BY <1>2
    <3> QED BY <3>1, <2>1, <1>4
  <2>3. ASSUME NEW i \in 1..3 * m, i % 3 # 0
        PROVE  x[i] \in {"r", "l"}
    <3>1. PICK j : j = i \div 3
      OBVIOUS
    <3>2. j \in Nat /\ i \in {3 * j + 1, 3 * j + 2} /\ j < m
      BY <3>1, <2>3, <1>2
    <3>3. x[i] = c[n + i]
      BY <2>3, <1>4
    <3>4. CASE j = 0
      BY <3>2, <3>3, <3>4, <2>1, <1>2
    <3>5. CASE j # 0
      <4>1. j \in 1..m /\ n + i \in {n + 3 * j + 1, n + 3 * j + 2}
        BY <3>2, <3>5, <1>2
      <4> QED BY <4>1, <3>3, <2>1
    <3> QED BY <3>4, <3>5
  <2> QED BY <2>2, <2>3
<1>6. PICK xs, js : xs = {i \in DOMAIN x : x[i] \in typed} /\ js = {i \in DOMAIN ls : ls[i] \in typed}
  OBVIOUS
<1>7. \A i : i \in xs <=> \E j \in js : i = 3 * j
  <2> SUFFICES ASSUME NEW i
               PROVE  i \in xs <=> \E j \in js : i = 3 * j
    OBVIOUS
  <2>1. ASSUME i \in xs
        PROVE  \E j \in js : i = 3 * j
    <3>1. i \in 1..3 * m /\ x[i] \in typed
      BY <2>1, <1>4, <1>6
    <3>2. i % 3 = 0
      <4>1. "r" \notin typed /\ "l" \notin typed
        BY <1>1 DEF TypeLines
      <4> QED BY <4>1, <3>1, <1>5
    <3>3. PICK j : j = i \div 3
      OBVIOUS
    <3>4. j \in 1..m /\ i = 3 * j
      BY <3>1, <3>2, <3>3, <1>2
    <3>5. ls[j] \in typed
      BY <3>1, <3>4, <1>5
    <3> QED BY <3>4, <3>5, <1>2, <1>6
  <2>2. ASSUME NEW j \in js, i = 3 * j
        PROVE  i \in xs
    <3>1. j \in 1..m /\ ls[j] \in typed
      BY <1>2, <1>6
    <3>2. i \in 1..3 * m /\ DOMAIN x = 1..3 * m
      BY <3>1, <2>2, <1>2, <1>4
    <3>3. x[i] \in typed
      BY <3>1, <2>2, <1>5
    <3> QED BY <3>2, <3>3, <1>6
  <2> QED BY <2>1, <2>2
<1>8. ContentTypeOfPart(SubSeq(c, 1, h - 4)) =
        IF xs = {} THEN "none" ELSE IF Max(xs) + 3 \in DOMAIN x /\ x[Max(xs) + 3] = "w" THEN "M" ELSE x[Max(xs)]
  <2>1. PICK k, y : k = h - 4 /\ y = n + 1
    OBVIOUS
  <2>2. k \in Nat /\ y \in Nat /\ 1 <= y /\ y <= k + 1 /\ k <= Len(c)
    BY <2>1, <1>2
  <2>3. SubSeq(SubSeq(c, 1, k), y, k) = SubSeq(c, y, k)
    BY <2>2, <1>2, Shorter
  <2>4. Len(SubSeq(c, 1, k)) = k
    <3>1. PICK one : one = 1
      OBVIOUS
    <3>2. one \in Nat /\ 1 <= one /\ one <= k + 1 /\ k - one + 1 = k
      BY <3>1, <2>2
    <3>3. Len(SubSeq(c, one, k)) = k - one + 1
      BY <3>2, <2>2, <1>2, Stretch
    <3> QED BY <3>1, <3>2, <3>3
  <2>5. From(SubSeq(c, 1, k), Len(Open) + 1) = x
    BY <2>1, <2>3, <2>4, <1>1, <1>3 DEF From
  <2>6. PICK q : q = SubSeq(c, 1, k)
    OBVIOUS
  <2>7. From(q, Len(Open) + 1) = x
    BY <2>5, <2>6
  <2>8. ContentTypeOfPart(q) =
          IF xs = {} THEN "none" ELSE IF Max(xs) + 3 \in DOMAIN x /\ x[Max(xs) + 3] = "w" THEN "M" ELSE x[Max(xs)]
    BY <2>7, <1>1, <1>6, Zenon DEF ContentTypeOfPart
  <2> QED BY <2>1, <2>6, <2>8
<1>9. TypeOf(ls, TRUE) =
        IF js = {} THEN "none" ELSE IF Max(js) < m /\ ls[Max(js) + 1] = "w" THEN "M" ELSE ls[Max(js)]
  <2>1. typed = TypeLines \cup (IF TRUE THEN {"A"} ELSE {})
    BY <1>1
  <2>2. m = Len(ls)
    BY <1>1
  <2> QED BY <2>1, <2>2, <1>6, Zenon DEF TypeOf
<1>10. CASE js = {}
  <2>1. xs = {}
    BY <1>7, <1>10
  <2> QED BY <2>1, <1>1, <1>8, <1>9, <1>10
<1>11. CASE js # {}
  <2>1. PICK a, b : a = Max(js) /\ b = Max(xs)
    OBVIOUS
  <2>2. a \in js /\ \A y \in js : y <= a
    <3>1. js \in SUBSET Nat /\ \A y \in js : y <= m
      BY <1>2, <1>6
    <3> QED BY <3>1, <2>1, <1>2, <1>11, MostIsIn
  <2>3. b = 3 * a
    <3>1. xs \in SUBSET Nat /\ \A y \in xs : y <= 3 * m
      <4>1. DOMAIN x = 1..3 * m
        BY <1>2, <1>4
      <4> QED BY <4>1, <1>2, <1>6
    <3>2. 3 * m \in Nat /\ xs # {}
      <4>1. xs # {}
        BY <2>2, <1>7
      <4> QED BY <4>1, <1>2
    <3>3. PICK bound : bound = 3 * m
      OBVIOUS
    <3>4. \A y \in xs : y <= bound
      BY <3>1, <3>3
    <3>5. b \in xs /\ \A y \in xs : y <= b
      BY <3>1, <3>2, <3>3, <3>4, <2>1, MostIsIn
    <3>6. PICK j \in js : b = 3 * j
      BY <3>5, <1>7
    <3>7. 3 * a \in xs
      BY <2>2, <1>7
    <3>8. js \subseteq 1..m
      BY <1>2, <1>6
    <3>9. a \in Nat /\ j \in Nat /\ j <= a /\ 3 * a <= b
      BY <2>2, <3>5, <3>6, <3>7, <3>8
    <3> QED BY <3>6, <3>9
  <2>4. a \in 1..m
    BY <2>2, <1>2, <1>6
  <2>5. x[b] = ls[a]
    BY <2>3, <2>4, <1>5
  <2>6. b + 3 \in DOMAIN x /\ x[b + 3] = "w" <=> a < m /\ ls[a + 1] = "w"
    <3>1. DOMAIN x = 1..3 * m
      BY <1>2, <1>4
    <3>2. b + 3 \in 1..3 * m <=> a < m
      BY <2>3, <2>4, <1>2
    <3>3. a < m => x[b + 3] = ls[a + 1]
      <4> SUFFICES ASSUME a < m PROVE x[b + 3] = ls[a + 1]
        OBVIOUS
      <4>1. a + 1 \in 1..m /\ b + 3 = 3 * (a + 1)
        BY <2>3, <2>4, <1>2
      <4> QED BY <4>1, <1>5
    <3> QED BY <3>1, <3>2, <3>3
  <2>7. xs # {}
    BY <2>2, <1>7
  <2> QED BY <2>1, <2>5, <2>6, <2>7, <1>1, <1>8, <1>9, <1>11
<1> QED BY <1>10, <1>11

(* One upload's body, field by field.                                      *)
HeadFields == {"head", "headDone", "headRead", "headType"}
OtherFields == {"framer", "parser", "fed", "announced", "line", "whole", "stored", "seen", "error", "enough"}
IsBody(b) == HeadFields \cup OtherFields \subseteq DOMAIN b
SameButHead(b, c) ==
  /\ c.framer = b.framer /\ c.parser = b.parser /\ c.fed = b.fed /\ c.announced = b.announced
  /\ c.line = b.line /\ c.whole = b.whole /\ c.stored = b.stored /\ c.seen = b.seen
  /\ c.error = b.error /\ c.enough = b.enough

(* What _read_head looks at when out comes, and where it finds the blank   *)
(* line.                                                                   *)
HeadNow(b, out) == b.head \o SubSeq(out, 1, Min({Len(out), MaxPartHead + 4 - Len(b.head)}))
Searched(b) == Max({0, Len(b.head) - 3})
Ended(b, out) == Find(From(HeadNow(b, out), Searched(b) + 1), CRLF \o CRLF)

HeadIs(b, c, head, start, end) ==
  /\ c.headRead \in BOOLEAN /\ (c.headRead <=> end > 0)
  /\ c.headDone <=> end > 0 \/ Len(head) > MaxPartHead
  /\ end > 0 => c.headType = ContentTypeOfPart(SubSeq(head, 1, start + end - 1))
  /\ ~c.headDone => c.head = head

(* What ReadHead changes.                                                  *)
LEMMA HeadSets ==
  ASSUME NEW b, IsBody(b), NEW out
  PROVE  /\ IsBody(ReadHead(b, out)) /\ SameButHead(b, ReadHead(b, out))
         /\ HeadIs(b, ReadHead(b, out), HeadNow(b, out), Searched(b), Ended(b, out))
<1>1. PICK head, start, end, c :
        head = HeadNow(b, out) /\ start = Searched(b) /\ end = Ended(b, out) /\ c = ReadHead(b, out)
  OBVIOUS
<1>2. PICK read, type, done, left :
        /\ read = (end > 0) /\ done = (end > 0 \/ Len(head) > MaxPartHead)
        /\ type = IF end > 0 THEN ContentTypeOfPart(SubSeq(head, 1, start + end - 1)) ELSE b.headType
        /\ left = IF end > 0 \/ Len(head) > MaxPartHead THEN <<>> ELSE head
  OBVIOUS
<1>3. c = [b EXCEPT !.headRead = read, !.headType = type, !.headDone = done, !.head = left]
  BY <1>1, <1>2, Zenon DEF ReadHead, HeadNow, Searched, Ended
<1>4. /\ IsBody(c) /\ SameButHead(b, c)
      /\ c.headRead = read /\ c.headType = type /\ c.headDone = done /\ c.head = left
  BY <1>3 DEF IsBody, HeadFields, OtherFields, SameButHead
<1>5. HeadIs(b, c, head, start, end)
  <2>1. c.headRead \in BOOLEAN
    <3>1. read \in BOOLEAN
      BY <1>2, SMT
    <3> QED BY <3>1, <1>4, Zenon
  <2>2. (c.headRead <=> end > 0) /\ (c.headDone <=> end > 0 \/ Len(head) > MaxPartHead)
    BY <1>2, <1>4, Zenon
  <2>3. /\ end > 0 => c.headType = ContentTypeOfPart(SubSeq(head, 1, start + end - 1))
        /\ ~c.headDone => c.head = head
    BY <1>2, <1>4
  <2> QED BY <2>1, <2>2, <2>3 DEF HeadIs
<1> QED BY <1>1, <1>4, <1>5

(* What is known of the header block once n of the text are handed on.     *)
HeadTo(f, b, n) == b.headRead \in BOOLEAN /\
  (\/ ~b.headDone /\ ~b.headRead /\ b.head = SubSeq(Canonical(f), 1, n) /\ n <= MaxPartHead /\ n < HeadSize(f.lines)
   \/ b.headDone /\ b.headRead /\ b.headType = TypeOf(f.lines, TRUE) /\ HeadLength(f.lines) <= MaxPartHead
   \/ b.headDone /\ ~b.headRead /\ HeadLength(f.lines) + 3 > MaxPartHead)

LEMMA HeadLengths ==
  ASSUME NEW f, WellComposed(f)
  PROVE  HeadLength(f.lines) = HeadSize(f.lines) - 4
<1>1. f.lines \in Seq(Symbols) /\ <<>> \in Seq(Symbols) /\ Len(<<>>) = 0
  BY Composed
<1>2. PICK none, k : none = <<>> /\ k = HeadSize(f.lines)
  OBVIOUS
<1>3. Len(Part(f.lines, none)) = HeadSize(f.lines) + Len(none)
  BY <1>1, <1>2, Parts
<1>4. k \in Nat
  BY <1>2, Made
<1> QED BY <1>1, <1>2, <1>3, <1>4 DEF HeadLength

(* However the text is cut, the header block is read whole if it fits, and *)
(* its type is then the form's.                                            *)
LEMMA ReadsHead ==
  ASSUME NEW f, WellComposed(f), NEW m \in Nat, NEW n \in Nat, m <= n, n <= Len(Canonical(f)),
         NEW b, IsBody(b), ~b.headDone, HeadTo(f, b, m)
  PROVE  HeadTo(f, ReadHead(b, SubSeq(Canonical(f), m + 1, n)), n)
<1>1. PICK out, c, h, k, limit, headed :
        /\ out = SubSeq(Canonical(f), m + 1, n) /\ c = Canonical(f) /\ h = HeadSize(f.lines)
        /\ k = Len(c) /\ limit = MaxPartHead + 4 /\ headed = ReadHead(b, out)
  OBVIOUS
<1>2. /\ c \in Seq(Symbols) /\ k \in Nat /\ h \in Nat /\ h >= 9 /\ h <= k /\ n <= k /\ n = m + Len(out)
      /\ Len(out) \in Nat /\ limit \in Nat /\ limit = MaxPartHead + 4 /\ MaxPartHead \in Nat
  <2>1. c \in Seq(Symbols) /\ k \in Nat
    BY <1>1, Made
  <2>2. h \in Nat /\ h >= 9 /\ h <= k
    <3>1. PICK e, d, o : e = DataEnd(f) /\ d = Len(f.data) /\ o = Len(Open)
      OBVIOUS
    <3>2. k >= e /\ e = h + d /\ d \in Nat /\ k \in Nat /\ h \in Nat /\ o \in Nat /\ o >= 2 /\ h >= o + 7
      BY <3>1, <1>1, Made
    <3> QED BY <3>2
  <2>3. Len(out) = n - m
    <3>1. PICK i : i = m + 1
      OBVIOUS
    <3>2. i \in Nat /\ 1 <= i /\ i <= n + 1 /\ n <= Len(c) /\ n - i + 1 = n - m
      BY <3>1, <1>1
    <3>3. Len(SubSeq(c, i, n)) = n - i + 1
      BY <3>2, <2>1, Stretch
    <3> QED BY <3>1, <3>2, <3>3, <1>1
  <2>4. MaxPartHead \in Nat /\ limit \in Nat /\ limit = MaxPartHead + 4
    BY <1>1, FilePartAssumption
  <2> QED BY <2>1, <2>2, <2>3, <2>4, <1>1
<1>3. b.head = SubSeq(c, 1, m) /\ m <= MaxPartHead /\ m < h
  BY <1>1 DEF HeadTo
<1>4. Len(b.head) = m
  <2>1. PICK one : one = 1
    OBVIOUS
  <2>2. one \in Nat /\ 1 <= one /\ one <= m + 1 /\ m <= Len(c) /\ m - one + 1 = m
    BY <2>1, <1>1
  <2>3. Len(SubSeq(c, one, m)) = m - one + 1
    BY <2>2, <1>2, Stretch
  <2> QED BY <2>1, <2>2, <2>3, <1>3
(* The header block up to its limit, and where its end was looked for.     *)
<1>5. PICK l : l = IF n <= limit THEN n ELSE limit
  OBVIOUS
<1>6. l \in Nat /\ m <= l /\ l <= n /\ l <= k
  BY <1>2, <1>3, <1>5
<1>7. HeadNow(b, out) = SubSeq(c, 1, l) /\ Len(SubSeq(c, 1, l)) = l
  <2>1. PICK x, y : x = Len(out) /\ y = limit - m
    OBVIOUS
  <2>2. x \in Int /\ y \in Int /\ (x <= y => l = m + x) /\ (~(x <= y) => l = m + y)
    BY <2>1, <1>2, <1>5
  <2>3. Min({x, y}) = l - m
    <3>1. Min({x, y}) = IF x <= y THEN x ELSE y
      BY <2>2, MinOfTwo
    <3>2. (IF x <= y THEN x ELSE y) = l - m
      BY <2>2, <1>6
    <3> QED BY <3>1, <3>2
  <2>4. HeadNow(b, out) = b.head \o SubSeq(out, 1, l - m)
    <3>1. MaxPartHead + 4 - Len(b.head) = y
      <4>1. MaxPartHead + 4 - m = y
        BY <2>1, <1>2
      <4> QED BY <4>1, <1>4
    <3> QED BY <3>1, <2>1, <2>3 DEF HeadNow
  <2>5. PICK i, q, one : i = m + 1 /\ q = l - m /\ one = 1
    OBVIOUS
  <2>6. /\ i \in Nat /\ 1 <= i /\ i <= n + 1 /\ n <= Len(c) /\ one \in Nat /\ q \in Nat /\ 1 <= one
        /\ one <= q + 1 /\ q <= n - i + 1 /\ i + one - 1 = i /\ i + q - 1 = l
    BY <2>5, <1>1, <1>2, <1>6
  <2>7. SubSeq(SubSeq(c, i, n), one, q) = SubSeq(c, i + one - 1, i + q - 1)
    BY <2>6, <1>2, StretchWithin
  <2>8. SubSeq(out, 1, l - m) = SubSeq(c, m + 1, l)
    BY <2>5, <2>6, <2>7, <1>1
  <2>9. SubSeq(c, one, m) \o SubSeq(c, m + 1, l) = SubSeq(c, one, l)
    <3>1. one <= m + 1 /\ l <= Len(c)
      BY <2>5, <1>1, <1>6
    <3> QED BY <3>1, <2>6, <1>2, <1>6, Stretches
  <2>10. Len(SubSeq(c, one, l)) = l - one + 1
    <3>1. one <= l + 1 /\ l <= Len(c)
      BY <2>5, <1>1, <1>6
    <3> QED BY <3>1, <2>6, <1>2, <1>6, Stretch
  <2>11. l - one + 1 = l
    BY <2>5, <1>6
  <2>12. Len(SubSeq(c, 1, l)) = l
    BY <2>5, <2>10, <2>11
  <2>13. b.head \o SubSeq(out, 1, l - m) = SubSeq(c, 1, l)
    BY <2>5, <2>8, <2>9, <1>3
  <2> QED BY <2>4, <2>12, <2>13
<1>8. PICK i : i = Searched(b) + 1
  OBVIOUS
<1>9. i \in Nat /\ 1 <= i /\ i <= l + 1 /\ i <= h - 3
  <2>1. PICK x, zero : x = m - 3 /\ zero = 0
    OBVIOUS
  <2>2. Max({zero, x}) = IF zero >= x THEN zero ELSE x
    <3>1. x \in Int /\ zero \in Int
      BY <2>1
    <3> QED BY <3>1, MaxOfTwo
  <2>3. Searched(b) = IF zero >= x THEN zero ELSE x
    BY <2>1, <2>2, <1>4 DEF Searched
  <2> QED BY <2>1, <2>3, <1>2, <1>3, <1>6, <1>8
<1>10. PICK s, end : s = h - 3 /\ end = Find(SubSeq(c, i, l), Blank)
  OBVIOUS
<1>11. end = IF h <= l THEN s - i + 1 ELSE 0
  <2>1. FirstAt(Blank, c, s)
    BY <1>1, <1>10, HeadEnds
  <2>2. Blank \in Seq(Symbols) /\ s + Len(Blank) - 1 = h
    BY <1>2, <1>10, Blanks
  <2>3. /\ s >= i /\ s + Len(Blank) - 1 <= l => Find(SubSeq(c, i, l), Blank) = s - i + 1
        /\ s + Len(Blank) - 1 > l => Find(SubSeq(c, i, l), Blank) = 0
    <3>1. l <= Len(c)
      BY <1>1, <1>6
    <3> QED BY <2>1, <2>2, <3>1, <1>2, <1>6, <1>9, FindsIn
  <2>4. s >= i
    BY <1>9, <1>10
  <2> QED BY <2>2, <2>3, <2>4, <1>2, <1>6, <1>10
<1>12. Ended(b, out) = end
  <2>1. From(HeadNow(b, out), i) = SubSeq(c, i, l)
    <3>1. SubSeq(SubSeq(c, 1, l), i, l) = SubSeq(c, i, l)
      <4>1. l <= Len(c)
        BY <1>1, <1>6
      <4> QED BY <4>1, <1>2, <1>6, <1>9, Shorter
    <3> QED BY <3>1, <1>7 DEF From
  <2> QED BY <2>1, <1>8, <1>10 DEF Ended, Blank
<1>13. HeadIs(b, headed, SubSeq(c, 1, l), i - 1, end)
  <2>1. HeadIs(b, headed, HeadNow(b, out), Searched(b), Ended(b, out))
    BY <1>1, HeadSets
  <2>2. Searched(b) = i - 1
    <3>1. Searched(b) \in Int
      <4>1. PICK x, zero : x = m - 3 /\ zero = 0
        OBVIOUS
      <4>2. Max({zero, x}) = IF zero >= x THEN zero ELSE x
        <5>1. x \in Int /\ zero \in Int
          BY <4>1
        <5> QED BY <5>1, MaxOfTwo
      <4>3. Searched(b) = IF zero >= x THEN zero ELSE x
        BY <4>1, <4>2, <1>4 DEF Searched
      <4> QED BY <4>1, <4>3
    <3> QED BY <3>1, <1>8
  <2> QED BY <2>1, <2>2, <1>7, <1>12
<1>14. HeadLength(f.lines) = h - 4
  BY <1>1, HeadLengths
<1>15. CASE h <= l
  <2>1. end > 0 /\ (i - 1) + end - 1 = h - 4
    BY <1>2, <1>9, <1>10, <1>11, <1>15
  <2>2. headed.headRead /\ headed.headDone /\ headed.headRead \in BOOLEAN
    BY <2>1, <1>13 DEF HeadIs
  <2>3. headed.headType = ContentTypeOfPart(SubSeq(SubSeq(c, 1, l), 1, h - 4))
    BY <2>1, <1>13 DEF HeadIs
  <2>4. SubSeq(SubSeq(c, 1, l), 1, h - 4) = SubSeq(c, 1, h - 4)
    <3>1. PICK one, q : one = 1 /\ q = h - 4
      OBVIOUS
    <3>2. /\ one \in Nat /\ 1 <= one /\ one <= l + 1 /\ l <= Len(c) /\ q \in Nat /\ one <= q + 1
          /\ q <= l - one + 1 /\ one + one - 1 = 1 /\ one + q - 1 = h - 4
      BY <3>1, <1>1, <1>2, <1>6, <1>15
    <3>3. SubSeq(SubSeq(c, one, l), one, q) = SubSeq(c, one + one - 1, one + q - 1)
      BY <3>2, <1>2, <1>6, StretchWithin
    <3> QED BY <3>1, <3>2, <3>3
  <2>5. headed.headType = TypeOf(f.lines, TRUE)
    BY <2>3, <2>4, <1>1, HeadType
  <2>6. h - 4 <= MaxPartHead
    BY <1>2, <1>5, <1>15
  <2> QED BY <2>2, <2>5, <2>6, <1>1, <1>14 DEF HeadTo
<1>16. CASE ~(h <= l)
  <2>1. ~(end > 0)
    BY <1>11, <1>16
  <2>2. headed.headRead \in BOOLEAN /\ ~headed.headRead /\ (headed.headDone <=> l > MaxPartHead) /\ (~headed.headDone => headed.head = SubSeq(c, 1, l))
    BY <2>1, <1>7, <1>13 DEF HeadIs
  <2>3. CASE l > MaxPartHead
    <3>1. (h - 4) + 3 > MaxPartHead
      BY <2>3, <1>2, <1>6, <1>16
    <3> QED BY <2>2, <2>3, <3>1, <1>1, <1>14 DEF HeadTo
  <2>4. CASE ~(l > MaxPartHead)
    <3>1. l = n /\ n <= MaxPartHead /\ n < h
      BY <2>4, <1>2, <1>5, <1>6, <1>16
    <3> QED BY <2>2, <2>4, <3>1, <1>1 DEF HeadTo
  <2> QED BY <2>3, <2>4
<1> QED BY <1>15, <1>16

----------------------------------------------------------------------------
(* What the parser has told of a form after n symbols of its text.         *)

(* What the parser has told of a form after n symbols of its text.         *)
Size(f, n) ==
  IF n < HeadSize(f.lines) \/ f.lines[1] = "O" THEN 0
  ELSE IF f.then = "cut" \/ n < AfterData(f) THEN n - Hold(f, n) - HeadSize(f.lines)
  ELSE Len(f.data)
FaultAt(f, n) ==
  IF f.lines[1] = "O" THEN IF n >= Len(Open) + 5 THEN "unexpected_part" ELSE "none"
  ELSE IF f.then \in {"second", "other"} /\ n >= AfterData(f) + 5
    THEN IF f.then = "second" THEN "duplicate_file" ELSE "unexpected_part"
  ELSE "none"
DoneAt(f, n) ==
  /\ f.lines[1] # "O" /\ f.then # "cut" /\ n >= AfterData(f) + 2
  /\ f.then = "close" => n >= Len(Canonical(f))
Told(f, n, p) ==
  /\ p.data = SubSeq(f.data, 1, Size(f, n))
  /\ p.fault = FaultAt(f, n)
  /\ p.done <=> DoneAt(f, n)
  /\ n >= HeadSize(f.lines) /\ f.lines[1] # "O" =>
       p.parts # 0 /\ p.filename = f.lines[1] /\ p.type = TypeSeen(f.lines, Len(f.lines))

(* Nothing is held back of the data once the delimiter is through, and     *)
(* what has come of the data stays.                                        *)
LEMMA SizeType ==
  ASSUME NEW f, WellComposed(f), NEW n \in Nat, n <= Len(Canonical(f))
  PROVE  Size(f, n) \in Nat /\ Size(f, n) <= Len(f.data)
<1>1. PICK c, h, d, e, q, x, k :
        /\ c = Canonical(f) /\ h = HeadSize(f.lines) /\ d = Len(f.data) /\ e = DataEnd(f) /\ q = Len(Delimiter)
        /\ x = Hold(f, n) /\ k = Len(c)
  OBVIOUS
<1>2. h \in Nat /\ d \in Nat /\ e = h + d /\ q \in Nat /\ k \in Nat /\ AfterData(f) = e + q
  <2>1. h \in Nat /\ d \in Nat /\ e = h + d /\ k \in Nat
    BY <1>1, Made
  <2>2. q \in Nat
    BY <1>1, Marks
  <2> QED BY <2>1, <2>2, <1>1 DEF AfterData
<1>3. CASE n < h \/ f.lines[1] = "O"
  BY <1>1, <1>2, <1>3 DEF Size
<1>4. CASE ~(n < h \/ f.lines[1] = "O")
  <2>1. n >= h
    BY <1>2, <1>4
  <2>2. x \in Nat /\ x <= n - h
    BY <2>1, <1>1, HoldNext
  <2>3. CASE f.then = "cut" \/ n < AfterData(f)
    <3>1. Size(f, n) = n - x - h
      BY <2>3, <1>1, <1>4 DEF Size
    <3>2. CASE n <= e
      <4>1. n - x - h \in Nat /\ n - x - h <= d
        BY <2>1, <2>2, <3>2, <1>2
      <4> QED BY <4>1, <3>1, <1>1
    <3>3. CASE n > e
      <4>1. f.then # "cut"
        <5>1. f.then = "cut" => k = e
          BY <1>1, Made DEF FormText
        <5> QED BY <5>1, <3>3, <1>1, <1>2
      <4>2. PICK y : y = n - e
        OBVIOUS
      <4>3. y \in Nat /\ y <= q /\ y <= n - h /\ n - y = e
        BY <4>1, <4>2, <2>3, <3>3, <1>2
      <4>4. Held(f, n, y)
        <5>1. \A i \in 1..q : c[e + i] = Delimiter[i]
          <6>1. FormText(c, f)
            BY <1>1, Made
          <6> QED BY <6>1, <4>1, <1>1 DEF FormText
        <5>2. \A j \in 1..y : c[n - y + j] = Delimiter[j]
          BY <5>1, <4>3, <1>2
        <5> QED BY <5>2, <4>3, <1>1 DEF Held
      <4>5. y <= x
        BY <4>4, <2>1, <1>1, Holds
      <4>6. n - x - h \in Nat /\ n - x - h <= d
        BY <4>3, <4>5, <2>1, <2>2, <1>2
      <4> QED BY <4>6, <3>1, <1>1
    <3> QED BY <3>2, <3>3, <1>2
  <2>4. CASE ~(f.then = "cut" \/ n < AfterData(f))
    BY <2>4, <1>1, <1>2, <1>4 DEF Size
  <2> QED BY <2>3, <2>4
<1> QED BY <1>3, <1>4

(* ... and it only grows.                                                  *)
LEMMA SizeGrows ==
  ASSUME NEW f, WellComposed(f), NEW n \in Nat, NEW m \in Nat, n <= m, m <= Len(Canonical(f))
  PROVE  Size(f, n) <= Size(f, m)
<1>1. PICK c, h, x, y, k, t :
        /\ c = Canonical(f) /\ h = HeadSize(f.lines) /\ x = Hold(f, n) /\ y = Hold(f, m) /\ k = Len(c)
        /\ t = AfterData(f)
  OBVIOUS
<1>2. h \in Nat /\ k \in Nat /\ t \in Nat /\ h <= t /\ n <= k
  <2>1. h \in Nat /\ k \in Nat
    BY <1>1, Made
  <2>2. PICK e, d, q : e = DataEnd(f) /\ d = Len(f.data) /\ q = Len(Delimiter)
    OBVIOUS
  <2>3. e = h + d /\ d \in Nat /\ q \in Nat /\ t = e + q
    <3>1. e = h + d /\ d \in Nat
      BY <2>2, <1>1, Made
    <3>2. q \in Nat
      BY <2>2, Marks
    <3>3. t = e + q
      BY <2>2, <1>1 DEF AfterData
    <3> QED BY <3>1, <3>2, <3>3
  <2>4. c = Canonical(f) /\ k \in Nat /\ m <= k
    BY <2>1, <1>1
  <2>5. h <= t
    BY <2>1, <2>3
  <2>6. n <= k
    BY <2>4
  <2> QED BY <2>1, <2>3, <2>5, <2>6
<1>3. /\ Size(f, n) \in Nat /\ Size(f, n) <= Len(f.data)
      /\ Size(f, m) \in Nat /\ Size(f, m) <= Len(f.data)
  <2>1. n <= Len(Canonical(f))
    BY <1>1, <1>2
  <2> QED BY <2>1, SizeType
<1>4. CASE n < h \/ f.lines[1] = "O"
  <2>1. Size(f, n) = 0
    BY <1>1, <1>4 DEF Size
  <2> QED BY <2>1, <1>3
<1>5. CASE ~(n < h \/ f.lines[1] = "O")
  <2>1. n >= h /\ m >= h /\ ~(m < h \/ f.lines[1] = "O")
    BY <1>2, <1>5
  <2>2. CASE f.then = "cut" \/ m < t
    <3>1. f.then = "cut" \/ n < t
      BY <2>2, <1>2
    <3>2. Size(f, n) = n - x - h /\ Size(f, m) = m - y - h
      BY <2>1, <2>2, <3>1, <1>1, <1>5 DEF Size
    <3>3. x \in Nat /\ y \in Nat /\ y <= m - h /\ y <= Len(Delimiter)
      BY <2>1, <1>1, HoldNext
    <3>4. n - x <= m - y
      <4> SUFFICES ASSUME n - x > m - y PROVE FALSE
        BY <3>3
      <4>1. PICK z : z = n - (m - y)
        OBVIOUS
      <4>2. z \in Nat /\ z > x /\ z <= y /\ z <= n - h /\ n - z = m - y
        BY <4>1, <3>3, <2>1, <1>2
      <4>3. Held(f, m, y)
        BY <2>1, <1>1, Holds
      <4>4. Held(f, n, z)
        <5>1. y \in Nat /\ y <= Len(Delimiter) /\ \A j \in 1..y : c[m - y + j] = Delimiter[j]
          BY <4>3, <1>1 DEF Held
        <5>2. \A j \in 1..z : c[n - z + j] = Delimiter[j]
          <6>1. ASSUME NEW j \in 1..z PROVE j \in 1..y /\ n - z + j = m - y + j
            BY <4>2, <3>3
          <6> QED BY <6>1, <5>1
        <5>3. z <= Len(Delimiter)
          <6>1. PICK q : q = Len(Delimiter)
            OBVIOUS
          <6>2. q \in Nat
            BY <6>1, Marks
          <6> QED BY <6>1, <6>2, <4>2, <5>1
        <5> QED BY <5>2, <5>3, <4>2, <1>1 DEF Held
      <4>5. z <= x
        BY <4>4, <2>1, <1>1, Holds
      <4> QED BY <4>2, <4>5, <3>3
    <3> QED BY <3>2, <3>3, <3>4, <1>2
  <2>3. CASE ~(f.then = "cut" \/ m < t)
    <3>1. Size(f, m) = Len(f.data)
      BY <2>1, <2>3, <1>1 DEF Size
    <3> QED BY <3>1, <1>3
  <2> QED BY <2>2, <2>3
<1> QED BY <1>4, <1>5

(* The fields of a parser.                                                 *)
LEMMA ParserFields ==
  ASSUME NEW at, NEW held, NEW parts, NEW filename, NEW type, NEW data, NEW done, NEW fault
  PROVE  /\ Parser(at, held, parts, filename, type, data, done, fault).parts = parts
         /\ Parser(at, held, parts, filename, type, data, done, fault).filename = filename
         /\ Parser(at, held, parts, filename, type, data, done, fault).type = type
         /\ Parser(at, held, parts, filename, type, data, done, fault).data = data
         /\ Parser(at, held, parts, filename, type, data, done, fault).done = done
         /\ Parser(at, held, parts, filename, type, data, done, fault).fault = fault
BY DEF Parser

(* The fields the target reads, in each kind of state.                     *)
Untold(p) == p.data = <<>> /\ p.done = FALSE /\ p.fault = "none"

(* The states up to the data tell of nothing but the header lines.         *)
LEMMA NewUntold ==
  ASSUME NEW at, NEW held
  PROVE  Untold([NewParser EXCEPT !.held = held]) /\ Untold([NewParser EXCEPT !.at = at, !.held = held])
<1>1. PICK none, no : none = <<>> /\ no = FALSE
  OBVIOUS
<1>2. PICK p : p = [at |-> "open", held |-> none, parts |-> 0, filename |-> "none",
                    type |-> "none", data |-> none, done |-> no, fault |-> "none"]
  OBVIOUS
<1>3. p = NewParser
  BY <1>1, <1>2, Zenon DEF NewParser
<1>4. /\ [p EXCEPT !.held = held].data = none /\ [p EXCEPT !.held = held].done = no
      /\ [p EXCEPT !.held = held].fault = "none"
      /\ [p EXCEPT !.at = at, !.held = held].data = none /\ [p EXCEPT !.at = at, !.held = held].done = no
      /\ [p EXCEPT !.at = at, !.held = held].fault = "none"
  BY <1>2
<1> QED BY <1>1, <1>3, <1>4 DEF Untold

LEMMA HeadingUntold ==
  ASSUME NEW f, NEW j, NEW held
  PROVE  Untold(Heading(f, j, held))
<1>1. PICK none, no, parts, filename, type :
        /\ none = <<>> /\ no = FALSE /\ parts = (IF j = 0 THEN 0 ELSE 1)
        /\ filename = (IF j = 0 THEN "none" ELSE f.lines[1]) /\ type = TypeSeen(f.lines, j)
  OBVIOUS
<1>2. Heading(f, j, held) = Parser("head", held, parts, filename, type, none, no, "none")
  BY <1>1, Zenon DEF Heading
<1>3. PICK at, fault : at = "head" /\ fault = "none"
  OBVIOUS
<1>4. /\ Parser(at, held, parts, filename, type, none, no, fault).data = none
      /\ Parser(at, held, parts, filename, type, none, no, fault).done = no
      /\ Parser(at, held, parts, filename, type, none, no, fault).fault = fault
  BY ParserFields
<1> QED BY <1>1, <1>2, <1>3, <1>4 DEF Untold

LEMMA RefusedTells == Refused.data = <<>> /\ Refused.done = FALSE /\ Refused.fault = "unexpected_part"
<1>1. PICK none, no : none = <<>> /\ no = FALSE
  OBVIOUS
<1>2. Refused = Parser("head", none, 0, "none", "none", none, no, "unexpected_part")
  BY <1>1, Zenon DEF Refused
<1>3. PICK at, zero, word, fault : at = "head" /\ zero = 0 /\ word = "none" /\ fault = "unexpected_part"
  OBVIOUS
<1>4. /\ Parser(at, none, zero, word, word, none, no, fault).data = none
      /\ Parser(at, none, zero, word, word, none, no, fault).done = no
      /\ Parser(at, none, zero, word, word, none, no, fault).fault = fault
  BY ParserFields
<1> QED BY <1>1, <1>2, <1>3, <1>4

(* What a part is named and typed, past its header block.                  *)
Named(f, p) == p.filename = f.lines[1] /\ p.type = TypeSeen(f.lines, Len(f.lines))

(* Past the data, and in it.                                               *)
LEMMA PastTells ==
  ASSUME NEW f, NEW at, NEW held, NEW parts, NEW done, NEW fault
  PROVE  /\ Past(f, at, held, parts, done, fault).data = f.data
         /\ Past(f, at, held, parts, done, fault).done = done
         /\ Past(f, at, held, parts, done, fault).fault = fault
         /\ Past(f, at, held, parts, done, fault).parts = parts
         /\ Named(f, Past(f, at, held, parts, done, fault))
<1>1. PICK filename, type, data : filename = f.lines[1] /\ type = TypeSeen(f.lines, Len(f.lines)) /\ data = f.data
  OBVIOUS
<1>2. Past(f, at, held, parts, done, fault) = Parser(at, held, parts, filename, type, data, done, fault)
  BY <1>1, Zenon DEF Past
<1>3. PICK p : p = Parser(at, held, parts, filename, type, data, done, fault)
  OBVIOUS
<1>4. /\ p.parts = parts /\ p.filename = filename /\ p.type = type /\ p.data = data /\ p.done = done /\ p.fault = fault
  BY <1>3, ParserFields
<1> QED BY <1>1, <1>2, <1>3, <1>4 DEF Named

LEMMA InDataTells ==
  ASSUME NEW f, NEW n
  PROVE  /\ DataState(f, n).data = SubSeq(Canonical(f), HeadSize(f.lines) + 1, n - Hold(f, n))
         /\ DataState(f, n).done = FALSE /\ DataState(f, n).fault = "none" /\ DataState(f, n).parts = 1
         /\ Named(f, DataState(f, n))
<1>1. PICK at, held, one, filename, type, data, no, fault :
        /\ at = "data" /\ held = SubSeq(Canonical(f), n - Hold(f, n) + 1, n) /\ one = 1
        /\ filename = f.lines[1] /\ type = TypeSeen(f.lines, Len(f.lines))
        /\ data = SubSeq(Canonical(f), HeadSize(f.lines) + 1, n - Hold(f, n)) /\ no = FALSE /\ fault = "none"
  OBVIOUS
<1>2. DataState(f, n) = Parser(at, held, one, filename, type, data, no, fault)
  BY <1>1, Zenon DEF DataState
<1>3. PICK p : p = Parser(at, held, one, filename, type, data, no, fault)
  OBVIOUS
<1>4. /\ p.parts = one /\ p.filename = filename /\ p.type = type /\ p.data = data /\ p.done = no /\ p.fault = fault
  BY <1>3, ParserFields
<1>5. PICK q : q = DataState(f, n)
  OBVIOUS
<1>6. q.parts = one /\ q.filename = filename /\ q.type = type /\ q.data = data /\ q.done = no /\ q.fault = fault
  BY <1>2, <1>3, <1>4, <1>5
<1>7. Named(f, q)
  BY <1>1, <1>6, Zenon DEF Named
<1> QED BY <1>1, <1>5, <1>6, <1>7, Zenon

(* The data that is out is the data's beginning.                           *)
LEMMA DataOut ==
  ASSUME NEW f, WellComposed(f), NEW n \in Nat, n <= Len(Canonical(f)), n >= HeadSize(f.lines),
         f.lines[1] # "O", f.then = "cut" \/ n < AfterData(f)
  PROVE  SubSeq(Canonical(f), HeadSize(f.lines) + 1, n - Hold(f, n)) = SubSeq(f.data, 1, Size(f, n))
<1>1. PICK c, h, x, z, d : c = Canonical(f) /\ h = HeadSize(f.lines) /\ x = Hold(f, n) /\ z = Size(f, n) /\ d = Len(f.data)
  OBVIOUS
<1>2. h \in Nat /\ x \in Nat /\ x <= n - h /\ z = n - x - h /\ z \in Nat /\ z <= d /\ d \in Nat
  <2>1. h \in Nat /\ d \in Nat
    BY <1>1, Made
  <2>2. x \in Nat /\ x <= n - h
    BY <1>1, HoldNext
  <2>3. z \in Nat /\ z <= d
    BY <1>1, SizeType
  <2>4. z = n - x - h
    <3>1. ~(n < HeadSize(f.lines) \/ f.lines[1] = "O")
      BY <2>1, <1>1
    <3> QED BY <3>1, <1>1 DEF Size
  <2> QED BY <2>1, <2>2, <2>3, <2>4
<1>3. c \in Seq(Symbols) /\ f.data \in Seq(Symbols)
  BY <1>1, Made, Composed
<1>4. PICK i, j, one : i = h + 1 /\ j = n - x /\ one = 1
  OBVIOUS
<1>5. /\ i \in Nat /\ j \in Nat /\ 1 <= i /\ i <= j + 1 /\ j <= Len(c) /\ j - i + 1 = z
      /\ one \in Nat /\ 1 <= one /\ one <= z + 1 /\ z <= Len(f.data) /\ z - one + 1 = z
  <2>1. n <= Len(c)
    BY <1>1
  <2>2. Len(c) \in Nat /\ Len(f.data) = d
    BY <1>1, <1>3
  <2> QED BY <2>1, <2>2, <1>2, <1>4
<1>6. /\ SubSeq(c, i, j) \in Seq(Symbols) /\ Len(SubSeq(c, i, j)) = j - i + 1
      /\ \A y \in 1..(j - i + 1) : SubSeq(c, i, j)[y] = c[i + y - 1]
  BY <1>3, <1>5, Stretch
<1>7. /\ SubSeq(f.data, one, z) \in Seq(Symbols) /\ Len(SubSeq(f.data, one, z)) = z - one + 1
      /\ \A y \in 1..(z - one + 1) : SubSeq(f.data, one, z)[y] = f.data[one + y - 1]
  BY <1>2, <1>3, <1>5, Stretch
<1>8. PICK s, t : s = SubSeq(c, i, j) /\ t = SubSeq(f.data, one, z)
  OBVIOUS
<1>9. \A y \in 1..d : c[h + y] = f.data[y]
  <2>1. PartText(c, f.lines, f.data)
    BY <1>1, Made
  <2> QED BY <2>1, <1>1 DEF PartText
<1>10. \A y \in 1..Len(s) : s[y] = t[y]
  <2> SUFFICES ASSUME NEW y \in 1..Len(s) PROVE s[y] = t[y]
    OBVIOUS
  <2>1. y \in 1..z
    BY <1>5, <1>6, <1>8
  <2>2. i + y - 1 = h + y /\ one + y - 1 = y /\ y \in 1..d
    BY <2>1, <1>2, <1>4
  <2>3. s[y] = c[i + y - 1] /\ t[y] = f.data[one + y - 1]
    BY <2>1, <1>5, <1>6, <1>7, <1>8
  <2> QED BY <2>2, <2>3, <1>9
<1>11. s = t
  <2>1. Len(s) = Len(t) /\ s \in Seq(Symbols) /\ t \in Seq(Symbols)
    BY <1>5, <1>6, <1>7, <1>8
  <2> QED BY <2>1, <1>10, SameText
<1> QED BY <1>1, <1>4, <1>8, <1>11

(* What the parser has told after n symbols.                               *)
LEMMA Tells ==
  ASSUME NEW f, WellComposed(f), NEW n \in Nat, n <= Len(Canonical(f))
  PROVE  Told(f, n, StateAt(f, n))
<1>1. PICK p, o, h, t, k : p = StateAt(f, n) /\ o = Len(Open) /\ h = HeadSize(f.lines) /\ t = AfterData(f) /\ k = Len(Canonical(f))
  OBVIOUS
<1>2. o \in Nat /\ o >= 2 /\ h \in Nat /\ h >= o + 7 /\ t \in Nat /\ t >= h /\ k \in Nat /\ n <= k
  <2>1. o \in Nat /\ o >= 2 /\ h \in Nat /\ h >= o + 7 /\ k \in Nat
    BY <1>1, Made
  <2>2. PICK e, d, q : e = DataEnd(f) /\ d = Len(f.data) /\ q = Len(Delimiter)
    OBVIOUS
  <2>3. e = h + d /\ d \in Nat
    BY <2>2, <1>1, Made
  <2>4. q \in Nat /\ t = e + q
    <3>1. q \in Nat
      BY <2>2, Marks
    <3> QED BY <3>1, <2>2, <1>1 DEF AfterData
  <2> QED BY <2>1, <2>3, <2>4, <1>1
<1>3. PICK none : none = SubSeq(f.data, 1, 0)
  OBVIOUS
<1>4. none = <<>>
  BY <1>3, Composed
<1>5. Size(f, n) = 0 => SubSeq(f.data, 1, Size(f, n)) = <<>>
  BY <1>3, <1>4
<1>6. CASE n < h /\ ~(f.lines[1] = "O" /\ n >= o + 5)
  <2>1. Untold(p)
    <3>1. CASE n < o
      <4>1. StateAt(f, n) = [NewParser EXCEPT !.held = SubSeq(Canonical(f), 1, n)]
        BY <3>1, <1>1 DEF StateAt
      <4> QED BY <4>1, <1>1, NewUntold
    <3>2. CASE ~(n < o) /\ n < o + 2
      <4>1. StateAt(f, n) = [NewParser EXCEPT !.at = "delimited", !.held = SubSeq(Canonical(f), o + 1, n)]
        BY <3>2, <1>1 DEF StateAt
      <4>2. PICK at, held : at = "delimited" /\ held = SubSeq(Canonical(f), o + 1, n)
        OBVIOUS
      <4>3. Untold([NewParser EXCEPT !.at = at, !.held = held])
        BY NewUntold
      <4> QED BY <4>1, <4>2, <4>3, <1>1
    <3>3. CASE ~(n < o + 2)
      <4>1. ~(n < o)
        BY <3>3, <1>2
      <4>2. StateAt(f, n) = Heading(f, Line(n), SubSeq(Canonical(f), o + 3 * Line(n) + 3, n))
        BY <4>1, <3>3, <1>1, <1>6 DEF StateAt
      <4> QED BY <4>2, <1>1, HeadingUntold
    <3> QED BY <3>1, <3>2, <3>3, <1>2
  <2>2. Size(f, n) = 0 /\ ~(n >= h) /\ ~(n >= t + 2) /\ ~(n >= t + 5)
    <3>1. ~(n >= h) /\ ~(n >= t + 2) /\ ~(n >= t + 5)
      BY <1>2, <1>6
    <3> QED BY <3>1, <1>1, <1>6 DEF Size
  <2>3. FaultAt(f, n) = "none"
    BY <2>2, <1>1, <1>6 DEF FaultAt
  <2>4. ~DoneAt(f, n)
    BY <2>2, <1>1 DEF DoneAt
  <2> QED BY <2>1, <2>2, <2>3, <2>4, <1>1, <1>5 DEF Told, Untold
<1>7. CASE f.lines[1] = "O" /\ n >= o + 5
  <2>1. ~(n < o) /\ ~(n < o + 2)
    BY <1>2, <1>7
  <2>2. p = Refused
    <3>1. ~(n < Len(Open)) /\ ~(n < Len(Open) + 2) /\ f.lines[1] = "O" /\ n >= Len(Open) + 5
      BY <2>1, <1>1, <1>7
    <3>2. StateAt(f, n) = Refused
      BY <3>1, Zenon DEF StateAt
    <3> QED BY <3>2, <1>1
  <2>3. Size(f, n) = 0
    BY <1>7 DEF Size
  <2>4. FaultAt(f, n) = "unexpected_part" /\ ~DoneAt(f, n)
    BY <1>1, <1>7 DEF FaultAt, DoneAt
  <2> QED BY <2>2, <2>3, <2>4, <1>1, <1>5, <1>7, RefusedTells DEF Told
<1>8. CASE n >= h /\ f.lines[1] # "O"
  <2>0. ~(n < o) /\ ~(n < o + 2) /\ ~(n < h) /\ ~(n < h \/ f.lines[1] = "O")
    BY <1>2, <1>8
  <2>1. CASE f.then = "cut" \/ n < t
    <3>1. p = DataState(f, n)
      <4>1. StateAt(f, n) = DataState(f, n)
        <5>1. f.then = "cut" \/ n < DataEnd(f) + Len(Delimiter)
          BY <2>1, <1>1 DEF AfterData
        <5>2. /\ ~(n < Len(Open)) /\ ~(n < Len(Open) + 2) /\ ~(f.lines[1] = "O" /\ n >= Len(Open) + 5)
              /\ ~(n < HeadSize(f.lines))
          BY <2>0, <1>1
        <5> QED BY <5>1, <5>2, Zenon DEF StateAt
      <4> QED BY <4>1, <1>1
    <3>2. p.data = SubSeq(f.data, 1, Size(f, n))
      <4>1. p.data = SubSeq(Canonical(f), HeadSize(f.lines) + 1, n - Hold(f, n))
        BY <3>1, InDataTells
      <4>2. SubSeq(Canonical(f), HeadSize(f.lines) + 1, n - Hold(f, n)) = SubSeq(f.data, 1, Size(f, n))
        BY <2>1, <1>1, <1>8, DataOut
      <4> QED BY <4>1, <4>2
    <3>3. p.done = FALSE /\ p.fault = "none" /\ p.parts = 1 /\ Named(f, p)
      BY <3>1, InDataTells
    <3>4. f.then = "cut" \/ (~(n >= t + 2) /\ ~(n >= t + 5))
      BY <2>1, <1>2
    <3>5. FaultAt(f, n) = "none" /\ ~DoneAt(f, n)
      BY <3>4, <1>1, <1>8 DEF FaultAt, DoneAt
    <3> QED BY <3>2, <3>3, <3>5, <1>1 DEF Told, Named
  <2>2. CASE ~(f.then = "cut" \/ n < t)
    <3>1. Size(f, n) = Len(f.data)
      BY <2>0, <2>2, <1>1 DEF Size
    <3>2. f.data = SubSeq(f.data, 1, Size(f, n))
      <4>1. f.data \in Seq(Symbols)
        BY Composed
      <4> QED BY <4>1, <3>1
    <3>3. n >= t /\ f.then # "cut" /\ f.then \in {"close", "second", "other"}
      <4>1. f.then \in {"close", "second", "other", "cut"}
        BY Composed
      <4> QED BY <4>1, <2>2, <1>2
    <3>4. p = IF n < t + 2 THEN Past(f, "delimited", SubSeq(Canonical(f), t + 1, n), 1, FALSE, "none")
              ELSE IF f.then = "close" THEN
                IF n < k THEN Past(f, "closing", SubSeq(Canonical(f), t + 3, n), 1, FALSE, "none")
                ELSE Past(f, "closed", <<"r">>, 1, TRUE, "none")
              ELSE IF n < t + 5 THEN Past(f, "head", SubSeq(Canonical(f), t + 3, n), 1, TRUE, "none")
              ELSE IF f.then = "second" THEN Past(f, "head", <<>>, 2, TRUE, "duplicate_file")
              ELSE Past(f, "head", <<>>, 1, TRUE, "unexpected_part")
      <4>1. n >= AfterData(f) /\ f.then # "cut" /\ f.lines[1] # "O"
        BY <3>3, <1>1, <1>8
      <4> QED BY <4>1, <1>1, InTail
    <3>5. PICK held1, held2, held3, held4, empty, one, two, yes, no :
            /\ held1 = SubSeq(Canonical(f), t + 1, n) /\ held2 = SubSeq(Canonical(f), t + 3, n)
            /\ held3 = <<"r">> /\ held4 = held2 /\ empty = <<>> /\ one = 1 /\ two = 2 /\ yes = TRUE /\ no = FALSE
      OBVIOUS
    <3>6. \A at, held, parts, done, fault :
            p = Past(f, at, held, parts, done, fault) =>
              p.data = f.data /\ p.done = done /\ p.fault = fault /\ p.parts = parts /\ Named(f, p)
      BY PastTells
    <3>7. CASE n < t + 2
      <4>1. p = Past(f, "delimited", held1, one, no, "none")
        BY <3>4, <3>5, <3>7
      <4>2. p.data = f.data /\ p.done = no /\ p.fault = "none" /\ p.parts = one /\ Named(f, p)
        BY <4>1, <3>6
      <4>3. ~(n >= t + 2) /\ ~(n >= t + 5)
        BY <3>7, <1>2
      <4>4. FaultAt(f, n) = "none" /\ ~DoneAt(f, n)
        BY <4>3, <1>1, <1>8 DEF FaultAt, DoneAt
      <4>5. p.done <=> DoneAt(f, n)
        BY <4>2, <4>4, <3>5
      <4>6. p.parts # 0
        BY <4>2, <3>5
      <4> QED BY <4>2, <4>4, <4>5, <4>6, <3>2, <1>1 DEF Told, Named
    <3>8. CASE ~(n < t + 2) /\ f.then = "close" /\ n < k
      <4>1. p = Past(f, "closing", held2, one, no, "none")
        BY <3>4, <3>5, <3>8
      <4>2. p.data = f.data /\ p.done = no /\ p.fault = "none" /\ p.parts = one /\ Named(f, p)
        BY <4>1, <3>6
      <4>3. ~(n >= k)
        BY <3>8, <1>2
      <4>4. FaultAt(f, n) = "none" /\ ~DoneAt(f, n)
        BY <4>3, <3>8, <1>1, <1>8 DEF FaultAt, DoneAt
      <4>5. p.done <=> DoneAt(f, n)
        BY <4>2, <4>4, <3>5
      <4>6. p.parts # 0
        BY <4>2, <3>5
      <4> QED BY <4>2, <4>4, <4>5, <4>6, <3>2, <1>1 DEF Told, Named
    <3>9. CASE ~(n < t + 2) /\ f.then = "close" /\ ~(n < k)
      <4>1. p = Past(f, "closed", held3, one, yes, "none")
        BY <3>4, <3>5, <3>9
      <4>2. p.data = f.data /\ p.done = yes /\ p.fault = "none" /\ p.parts = one /\ Named(f, p)
        BY <4>1, <3>6
      <4>3. n >= k /\ n >= t + 2
        BY <3>9, <1>2
      <4>4. FaultAt(f, n) = "none" /\ DoneAt(f, n)
        BY <4>3, <3>9, <1>1, <1>8 DEF FaultAt, DoneAt
      <4>5. p.done <=> DoneAt(f, n)
        BY <4>2, <4>4, <3>5
      <4>6. p.parts # 0
        BY <4>2, <3>5
      <4> QED BY <4>2, <4>4, <4>5, <4>6, <3>2, <1>1 DEF Told, Named
    <3>10. CASE ~(n < t + 2) /\ f.then # "close" /\ n < t + 5
      <4>1. p = Past(f, "head", held2, one, yes, "none")
        BY <3>4, <3>5, <3>10
      <4>2. p.data = f.data /\ p.done = yes /\ p.fault = "none" /\ p.parts = one /\ Named(f, p)
        BY <4>1, <3>6
      <4>3. ~(n >= t + 5) /\ n >= t + 2
        BY <3>10, <1>2
      <4>4. FaultAt(f, n) = "none" /\ DoneAt(f, n)
        BY <4>3, <3>3, <3>10, <1>1, <1>8 DEF FaultAt, DoneAt
      <4>5. p.done <=> DoneAt(f, n)
        BY <4>2, <4>4, <3>5
      <4>6. p.parts # 0
        BY <4>2, <3>5
      <4> QED BY <4>2, <4>4, <4>5, <4>6, <3>2, <1>1 DEF Told, Named
    <3>11. CASE ~(n < t + 5) /\ f.then # "close"
      <4>0. ~(n < t + 2) /\ n >= t + 5 /\ n >= t + 2
        BY <3>11, <1>2
      <4>1. PICK parts, fault :
              /\ parts = (IF f.then = "second" THEN 2 ELSE 1)
              /\ fault = (IF f.then = "second" THEN "duplicate_file" ELSE "unexpected_part")
        OBVIOUS
      <4>2. p = Past(f, "head", empty, parts, yes, fault)
        <5>1. CASE f.then = "second"
          BY <5>1, <4>0, <4>1, <3>4, <3>5, <3>11
        <5>2. CASE f.then # "second"
          BY <5>2, <4>0, <4>1, <3>4, <3>5, <3>11
        <5> QED BY <5>1, <5>2
      <4>3. p.data = f.data /\ p.done = yes /\ p.fault = fault /\ p.parts = parts /\ Named(f, p)
        BY <4>2, <3>6
      <4>4. FaultAt(f, n) = fault /\ DoneAt(f, n)
        BY <4>0, <4>1, <3>3, <3>11, <1>1, <1>8 DEF FaultAt, DoneAt
      <4>5. p.done <=> DoneAt(f, n)
        BY <4>3, <4>4, <3>5
      <4>6. p.parts # 0
        BY <4>1, <4>3
      <4> QED BY <4>3, <4>4, <4>5, <4>6, <3>2, <1>1 DEF Told, Named
    <3> QED BY <3>7, <3>8, <3>9, <3>10, <3>11, <1>2
  <2> QED BY <2>1, <2>2
<1>9. \/ n < h /\ ~(f.lines[1] = "O" /\ n >= o + 5)
      \/ f.lines[1] = "O" /\ n >= o + 5
      \/ n >= h /\ f.lines[1] # "O"
  BY <1>2
<1> QED BY <1>6, <1>7, <1>8, <1>9

(* The type the parser saw, and the one read from the whole header block.  *)
LEMMA SeenType ==
  ASSUME NEW lines \in Seq(Symbols)
  PROVE  TypeSeen(lines, Len(lines)) = TypeOf(lines, FALSE)
<1>1. PICK types : types = {i \in 1..Len(lines) : lines[i] \in TypeLines}
  OBVIOUS
<1>2. TypeSeen(lines, Len(lines)) = IF types = {} THEN "none" ELSE lines[Max(types)]
  BY <1>1 DEF TypeSeen
<1>3. types = {i \in DOMAIN lines : lines[i] \in TypeLines \cup (IF FALSE THEN {"A"} ELSE {})}
  <2>1. DOMAIN lines = 1..Len(lines) /\ TypeLines \cup (IF FALSE THEN {"A"} ELSE {}) = TypeLines
    OBVIOUS
  <2> QED BY <2>1, <1>1
<1>4. TypeOf(lines, FALSE) = IF types = {} THEN "none" ELSE lines[Max(types)]
  BY <1>3, Zenon DEF TypeOf
<1>5. PICK x : x = IF types = {} THEN "none" ELSE lines[Max(types)]
  OBVIOUS
<1>6. TypeSeen(lines, Len(lines)) = x
  BY <1>2, <1>5
<1>7. TypeOf(lines, FALSE) = x
  BY <1>4, <1>5
<1> QED BY <1>6, <1>7

(* The type the parser saw is that of a header block that is not read      *)
(* whole.                                                                  *)
LEMMA TypesAgree ==
  ASSUME NEW lines \in Seq(Symbols), NEW whole, whole = TypeOf(lines, TRUE), NEW seen, seen = TypeOf(lines, FALSE)
  PROVE  /\ whole \in {"none", "T", "U", "M", "A"} /\ seen \in {"none", "T", "U", "M"}
         /\ whole \in {"none", "T", "U"} => whole = seen
<1>1. PICK n, all, types :
        /\ n = Len(lines) /\ all = {i \in 1..n : lines[i] \in TypeLines \cup {"A"}}
        /\ types = {i \in 1..n : lines[i] \in TypeLines}
  OBVIOUS
<1>2. n \in Nat /\ DOMAIN lines = 1..n
  BY <1>1
<1>3. seen = IF types = {} THEN "none" ELSE lines[Max(types)]
  <2>1. types = {i \in DOMAIN lines : lines[i] \in TypeLines \cup (IF FALSE THEN {"A"} ELSE {})}
    <3>1. TypeLines \cup (IF FALSE THEN {"A"} ELSE {}) = TypeLines
      OBVIOUS
    <3> QED BY <3>1, <1>1, <1>2
  <2> QED BY <2>1, Zenon DEF TypeOf
<1>4. whole = IF all = {} THEN "none" ELSE IF Max(all) < n /\ lines[Max(all) + 1] = "w" THEN "M" ELSE lines[Max(all)]
  <2>1. all = {i \in DOMAIN lines : lines[i] \in TypeLines \cup (IF TRUE THEN {"A"} ELSE {})}
    BY <1>1, <1>2
  <2> QED BY <2>1, <1>1, Zenon DEF TypeOf
<1>5. all # {} => Max(all) \in all /\ \A y \in all : y <= Max(all)
  <2>1. all \in SUBSET Nat /\ \A y \in all : y <= n
    BY <1>1
  <2> QED BY <2>1, <1>2, MostIsIn
<1>6. types # {} => Max(types) \in types /\ \A y \in types : y <= Max(types)
  <2>1. types \in SUBSET Nat /\ \A y \in types : y <= n
    BY <1>1
  <2> QED BY <2>1, <1>2, MostIsIn
<1>7. PICK a, t : a = Max(all) /\ t = Max(types)
  OBVIOUS
<1>8. whole \in {"none", "T", "U", "M", "A"}
  BY <1>1, <1>4, <1>5 DEF TypeLines
<1>9. seen \in {"none", "T", "U", "M"}
  BY <1>1, <1>3, <1>6 DEF TypeLines
<1>10. ASSUME whole \in {"none", "T", "U"} PROVE whole = seen
  <2>1. CASE all = {}
    <3>1. types = {}
      BY <2>1, <1>1
    <3> QED BY <3>1, <2>1, <1>3, <1>4
  <2>2. CASE all # {}
    <3>1. whole = lines[a] /\ a \in all
      BY <2>2, <1>4, <1>5, <1>7, <1>10
    <3>2. lines[a] \in TypeLines
      BY <3>1, <1>1, <1>10 DEF TypeLines
    <3>3. a \in types
      BY <3>1, <3>2, <1>1
    <3>4. t \in types /\ a <= t
      BY <3>3, <1>6, <1>7
    <3>5. t \in all
      BY <3>4, <1>1
    <3>6. t <= a
      BY <3>5, <2>2, <1>5, <1>7
    <3>7. t = a
      BY <3>1, <3>4, <3>5, <3>6, <1>1
    <3> QED BY <3>1, <3>3, <3>7, <1>3, <1>7
  <2> QED BY <2>1, <2>2
<1> QED BY <1>8, <1>9, <1>10

(* What an announcement refuses and records, against the form.             *)
LEMMA AnnouncedRight ==
  ASSUME NEW f, WellComposed(f), NEW b, b.headRead => b.headType = TypeOf(f.lines, TRUE),
         NEW p, Named(f, p)
  PROVE  /\ AnnounceError(b, p) = IF f.lines[1] = "E" THEN "missing_file" ELSE TypeError(f.lines, b.headRead)
         /\ (IF b.headRead THEN b.headType ELSE p.type) = TypeOf(f.lines, b.headRead)
<1>1. PICK whole, seen : whole = TypeOf(f.lines, TRUE) /\ seen = TypeOf(f.lines, FALSE)
  OBVIOUS
<1>2. /\ whole \in {"none", "T", "U", "M", "A"} /\ seen \in {"none", "T", "U", "M"}
      /\ whole \in {"none", "T", "U"} => whole = seen
  <2>1. f.lines \in Seq(Symbols)
    BY Composed
  <2>2. PICK lines : lines = f.lines
    OBVIOUS
  <2>3. lines \in Seq(Symbols) /\ whole = TypeOf(lines, TRUE) /\ seen = TypeOf(lines, FALSE)
    BY <2>1, <2>2, <1>1
  <2> QED BY <2>3, TypesAgree
<1>3. p.type = seen /\ p.filename = f.lines[1]
  <2>1. f.lines \in Seq(Symbols)
    BY Composed
  <2> QED BY <2>1, <1>1, SeenType DEF Named
<1>4. CASE b.headRead
  <2>1. TypeOf(f.lines, b.headRead) = whole
    BY <1>1, <1>4, Zenon DEF TypeOf
  <2>2. TypeError(f.lines, b.headRead) =
          IF whole \in {"M", "A"} THEN "invalid_media_type" ELSE IF whole = "U" THEN "unsupported_media_type" ELSE "none"
    BY <2>1, <1>4 DEF TypeError
  <2>3. b.headType = whole
    BY <1>1, <1>4
  <2>4. AnnounceError(b, p) =
          IF f.lines[1] = "E" THEN "missing_file"
          ELSE IF whole \in {"M"} \cup (WellFormed \ {seen}) THEN "invalid_media_type"
          ELSE IF whole = "U" THEN "unsupported_media_type" ELSE "none"
    BY <2>3, <1>3, <1>4 DEF AnnounceError
  <2>5. whole \in {"M"} \cup (WellFormed \ {seen}) <=> whole \in {"M", "A"}
    BY <1>2 DEF WellFormed
  <2> QED BY <2>1, <2>2, <2>3, <2>4, <2>5, <1>4
<1>5. CASE ~b.headRead
  <2>1. TypeOf(f.lines, b.headRead) = seen
    BY <1>1, <1>5, Zenon DEF TypeOf
  <2>2. TypeError(f.lines, b.headRead) = IF seen = "U" THEN "unsupported_media_type" ELSE "none"
    BY <2>1, <1>5 DEF TypeError
  <2>3. AnnounceError(b, p) =
          IF f.lines[1] = "E" THEN "missing_file" ELSE IF seen = "U" THEN "unsupported_media_type" ELSE "none"
    BY <1>3, <1>5 DEF AnnounceError
  <2> QED BY <2>1, <2>2, <2>3, <1>3, <1>5
<1> QED BY <1>4, <1>5

----------------------------------------------------------------------------
(* One piece: what is announced, refused and stored.                       *)

(* What feeding a piece leaves alone.                                      *)
SameHead(b, c) ==
  c.head = b.head /\ c.headDone = b.headDone /\ c.headRead = b.headRead /\ c.headType = b.headType
SameReading(b, c) == SameHead(b, c) /\ c.framer = b.framer /\ c.enough = b.enough

(* What one piece does to a body nothing is held against.                  *)
RefusedFor(u, b, q, news) ==
  FirstError(<<IF Announces(b, q) THEN AnnounceError(b, q) ELSE "none",
               IF news # <<>> THEN SizeError(u, Len(q.data)) ELSE "none">>)
Received(u, b, piece, d, q, news, refused, over) ==
  /\ IsBody(d) /\ SameReading(b, d)
  /\ d.parser = q /\ d.fed = b.fed + Len(piece) /\ d.seen = b.seen \o piece
  /\ d.stored = IF refused = "none" THEN b.stored \o news ELSE b.stored
  /\ Announces(b, q) =>
       d.announced /\ d.whole = b.headRead /\ d.line = IF b.headRead THEN b.headType ELSE q.type
  /\ ~Announces(b, q) => (d.announced <=> b.announced) /\ d.whole = b.whole /\ d.line = b.line
  /\ over <=> d.fed - Len(d.stored) > MaxOverhead
  /\ d.error = FirstError(<<FirstError(<<refused, q.fault>>),
                            IF over THEN "part_headers_too_large" ELSE "none">>)

(* What FeedPiece changes.                                                 *)
LEMMA PieceSets ==
  ASSUME NEW u, NEW b, IsBody(b), b.error = "none", NEW piece,
         NEW q, q = Parse(b.parser, piece), NEW news, news = From(q.data, Len(b.parser.data) + 1),
         NEW refused, refused = RefusedFor(u, b, q, news)
  PROVE  \E over : Received(u, b, piece, FeedPiece(u, b, piece), q, news, refused, over)
<1>0. PICK announces : announces = Announces(b, q)
  OBVIOUS
<1>a. PICK announced : announced = (b.announced \/ announces)
  OBVIOUS
<1>b. PICK line, whole : /\ line = (IF announces THEN (IF b.headRead THEN b.headType ELSE q.type) ELSE b.line)
                         /\ whole = (IF announces THEN b.headRead ELSE b.whole)
  OBVIOUS
<1>c. PICK stored, error : /\ stored = (IF refused = "none" THEN b.stored \o news ELSE b.stored)
                           /\ error = FirstError(<<refused, q.fault>>)
  OBVIOUS
<1>1. /\ announces = Announces(b, q)
      /\ announced = (b.announced \/ announces)
      /\ line = (IF announces THEN (IF b.headRead THEN b.headType ELSE q.type) ELSE b.line)
      /\ whole = (IF announces THEN b.headRead ELSE b.whole)
      /\ stored = (IF refused = "none" THEN b.stored \o news ELSE b.stored)
      /\ error = FirstError(<<refused, q.fault>>)
  BY <1>0, <1>a, <1>b, <1>c
<1>2. PICK c : c = Receive(u, b, q)
  OBVIOUS
<1>3. c = [b EXCEPT !.parser = q, !.announced = announced, !.line = line, !.whole = whole,
                    !.stored = stored, !.error = error]
  BY <1>1, <1>2, Zenon DEF Receive, RefusedFor
<1>4. /\ IsBody(c) /\ SameReading(b, c)
      /\ c.parser = q /\ c.announced = announced /\ c.line = line /\ c.whole = whole /\ c.stored = stored
      /\ c.error = error /\ c.fed = b.fed /\ c.seen = b.seen
  BY <1>3 DEF IsBody, HeadFields, OtherFields, SameReading, SameHead
<1>5. PICK fed, over, seen, last :
        /\ fed = b.fed + Len(piece) /\ over = (fed - Len(c.stored) > MaxOverhead) /\ seen = c.seen \o piece
        /\ last = FirstError(<<c.error, IF over THEN "part_headers_too_large" ELSE "none">>)
  OBVIOUS
<1>6. PICK d : d = FeedPiece(u, b, piece)
  OBVIOUS
<1>7. d = [c EXCEPT !.fed = fed, !.seen = seen, !.error = last]
  BY <1>2, <1>5, <1>6, Zenon DEF FeedPiece
<1>8. /\ IsBody(d) /\ SameReading(c, d)
      /\ d.parser = c.parser /\ d.announced = c.announced /\ d.line = c.line /\ d.whole = c.whole
      /\ d.stored = c.stored /\ d.fed = fed /\ d.seen = seen /\ d.error = last
  BY <1>4, <1>7 DEF IsBody, HeadFields, OtherFields, SameReading, SameHead
<1>9. IsBody(d) /\ SameReading(b, d) /\ d.parser = q /\ d.fed = b.fed + Len(piece) /\ d.seen = b.seen \o piece
  BY <1>4, <1>5, <1>8 DEF SameReading, SameHead
<1>10. d.stored = IF refused = "none" THEN b.stored \o news ELSE b.stored
  BY <1>1, <1>4, <1>8
<1>11. d.announced = announced /\ d.whole = whole /\ d.line = line
  BY <1>4, <1>8
<1>12. /\ Announces(b, q) =>
            d.announced /\ d.whole = b.headRead /\ d.line = IF b.headRead THEN b.headType ELSE q.type
       /\ ~Announces(b, q) => (d.announced <=> b.announced) /\ d.whole = b.whole /\ d.line = b.line
  BY <1>1, <1>11, Zenon
<1>13. over <=> d.fed - Len(d.stored) > MaxOverhead
  BY <1>5, <1>8
<1>14. d.error = FirstError(<<FirstError(<<refused, q.fault>>), IF over THEN "part_headers_too_large" ELSE "none">>)
  BY <1>1, <1>4, <1>5, <1>8
<1>15. Received(u, b, piece, d, q, news, refused, over)
  BY <1>9, <1>10, <1>12, <1>13, <1>14 DEF Received
<1> QED BY <1>6, <1>15

(* What is fed beyond the data is never more than the form's overhead.     *)
LEMMA OverheadReached ==
  ASSUME NEW f, WellComposed(f), NEW n \in Nat, n <= Len(Canonical(f)), FaultAt(f, n) = "none"
  PROVE  n - Size(f, n) <= Overhead(f)
<1>1. PICK c, h, x, d, e, q, o, k, t, z :
        /\ c = Canonical(f) /\ h = HeadSize(f.lines) /\ x = Hold(f, n) /\ d = Len(f.data) /\ e = DataEnd(f)
        /\ q = Len(Delimiter) /\ o = Len(Open) /\ k = Len(c) /\ t = AfterData(f) /\ z = Size(f, n)
  OBVIOUS
<1>2. /\ h \in Nat /\ h >= o + 7 /\ d \in Nat /\ e = h + d /\ o \in Nat /\ q = o + 2 /\ k \in Nat /\ t = e + q
      /\ z \in Nat /\ n <= k /\ k >= e
  <2>1. h \in Nat /\ h >= o + 7 /\ d \in Nat /\ e = h + d /\ o \in Nat /\ q = o + 2 /\ k \in Nat /\ k >= e
    BY <1>1, Made
  <2>2. t = e + q /\ n <= k
    BY <1>1 DEF AfterData
  <2>3. z \in Nat
    BY <1>1, SizeType
  <2> QED BY <2>1, <2>2, <2>3
<1>3. /\ f.then = "cut" => k = e
      /\ f.then # "cut" => k > e + o + 5
  <2>1. FormText(c, f)
    BY <1>1, Made
  <2> QED BY <2>1, <1>1 DEF FormText
<1>4. Overhead(f) = k - d + (IF f.then = "cut" THEN q ELSE 0)
  BY <1>1 DEF Overhead
<1>5. PICK y : y = IF f.then = "cut" THEN q ELSE 0
  OBVIOUS
<1>6. y \in Nat /\ k - d + y >= h + q
  BY <1>2, <1>3, <1>5
<1>7. n - z <= k - d + y
  <2>1. CASE n < h
    BY <2>1, <1>2, <1>6
  <2>2. CASE n >= h
    <3>1. f.lines[1] # "O"
      <4>1. n >= o + 5
        BY <2>2, <1>2
      <4> QED BY <4>1, <1>1 DEF FaultAt
    <3>2. ~(n < h \/ f.lines[1] = "O")
      BY <3>1, <2>2, <1>2
    <3>3. CASE f.then = "cut" \/ n < t
      <4>1. z = n - x - h
        BY <3>2, <3>3, <1>1 DEF Size
      <4>2. x \in Nat /\ x <= q
        BY <2>2, <1>1, HoldNext
      <4>3. n - z = x + h
        BY <4>1, <4>2, <1>2
      <4> QED BY <4>2, <4>3, <1>2, <1>6
    <3>4. CASE ~(f.then = "cut" \/ n < t)
      <4>1. z = d
        BY <3>2, <3>4, <1>1 DEF Size
      <4> QED BY <4>1, <1>2, <1>5, <1>6
    <3> QED BY <3>3, <3>4
  <2> QED BY <2>1, <2>2, <1>2
<1>8. n - Size(f, n) = n - z /\ Overhead(f) = k - d + y
  BY <1>1, <1>4, <1>5
<1> QED BY <1>7, <1>8

(* Each thing that can be held against a form.                             *)
LEMMA FlawsOf ==
  ASSUME NEW u, NEW f, f = u.form, NEW whole
  PROVE  /\ f.lines[1] = "O" \/ f.then = "other" => "unexpected_part" \in Flaws(u, whole)
         /\ f.lines[1] = "E" => "missing_file" \in Flaws(u, whole)
         /\ f.then = "second" => "duplicate_file" \in Flaws(u, whole)
         /\ Overhead(f) > MaxOverhead => "part_headers_too_large" \in Flaws(u, whole)
         /\ TypeError(f.lines, whole) # "none" => TypeError(f.lines, whole) \in Flaws(u, whole)
         /\ LengthError(u, Len(f.data)) # "none" => LengthError(u, Len(f.data)) \in Flaws(u, whole)
<1>1. PICK a, b, c, d, e, g :
        /\ a = (IF f.lines[1] = "O" \/ f.then = "other" THEN "unexpected_part" ELSE "none")
        /\ b = (IF f.lines[1] = "E" THEN "missing_file" ELSE "none")
        /\ c = (IF f.then = "second" THEN "duplicate_file" ELSE "none")
        /\ d = (IF Overhead(f) > MaxOverhead THEN "part_headers_too_large" ELSE "none")
        /\ e = TypeError(f.lines, whole) /\ g = LengthError(u, Len(f.data))
  OBVIOUS
<1>2. Flaws(u, whole) = {a, b, c, d, e, g} \ {"none"}
  BY <1>1 DEF Flaws
<1>3. \A x \in {a, b, c, d, e, g} : x # "none" => x \in Flaws(u, whole)
  BY <1>2
<1>4. /\ a # "none" => a \in Flaws(u, whole)
      /\ b # "none" => b \in Flaws(u, whole)
      /\ c # "none" => c \in Flaws(u, whole)
      /\ d # "none" => d \in Flaws(u, whole)
      /\ e # "none" => e \in Flaws(u, whole)
      /\ g # "none" => g \in Flaws(u, whole)
  BY <1>3
<1> QED BY <1>1, <1>4

(* A fault of the parser is one of the form.                               *)
LEMMA FaultIsFlaw ==
  ASSUME NEW u, NEW f, f = u.form, NEW whole, NEW n, FaultAt(f, n) # "none"
  PROVE  FaultAt(f, n) \in Flaws(u, whole)
<1>1. PICK x : x = FaultAt(f, n)
  OBVIOUS
<1>2. \/ x = "unexpected_part" /\ (f.lines[1] = "O" \/ f.then = "other")
      \/ x = "duplicate_file" /\ f.then = "second"
  BY <1>1 DEF FaultAt
<1> QED BY <1>1, <1>2, FlawsOf

(* A body that has been fed n of its form's text, with nothing against it. *)
Judged(f, b) ==
  /\ f.lines[1] # "E" /\ b.whole = b.headRead /\ b.line = TypeOf(f.lines, b.headRead)
  /\ TypeError(f.lines, b.headRead) = "none"
(* A body after n symbols of a form, with nothing held against it.         *)
FedTo(u, f, b, n) ==
  /\ b.error = "none" /\ b.parser = StateAt(f, n) /\ b.fed = n /\ b.seen = SubSeq(Canonical(f), 1, n)
  /\ b.stored = SubSeq(f.data, 1, Size(f, n))
  /\ FaultAt(f, n) = "none" /\ n - Size(f, n) <= MaxOverhead /\ SizeError(u, Size(f, n)) = "none"
  /\ b.announced <=> Size(f, n) > 0 \/ DoneAt(f, n)
  /\ b.announced => Judged(f, b)

(* A body something is held against.                                       *)
SomeFlaw(u, b) == \A w \in BOOLEAN : (b.headDone => w = b.headRead) => b.error \in Flaws(u, w)

(* FedBounded, of one body.                                                *)
Bounded(b) == b.fed - Len(b.stored) <= MaxOverhead + FeedSlice

(* A body something is held against, that is in the form.                  *)
Failed(u, f, b) ==
  /\ b.error # "none" /\ SomeFlaw(u, b) /\ Bounded(b)
  /\ \E k \in Nat : k <= Len(Canonical(f)) /\ b.seen = SubSeq(Canonical(f), 1, k)

(* The data before and after a piece.                                      *)
DataMore(f, n, m, p, q, news) ==
  /\ Len(p.data) = Size(f, n) /\ Len(q.data) = Size(f, m)
  /\ SubSeq(f.data, 1, Size(f, n)) \o news = SubSeq(f.data, 1, Size(f, m))
  /\ (news # <<>> <=> Size(f, n) # Size(f, m))
  /\ Len(SubSeq(f.data, 1, Size(f, n))) = Size(f, n)
LEMMA MoreData ==
  ASSUME NEW f, WellComposed(f), NEW n \in Nat, NEW m \in Nat, n <= m, m <= Len(Canonical(f)),
         NEW p, p = StateAt(f, n), NEW q, q = StateAt(f, m), NEW news, news = From(q.data, Len(p.data) + 1)
  PROVE  DataMore(f, n, m, p, q, news)
<1>1. PICK s, a, z, one, i : s = f.data /\ a = Size(f, n) /\ z = Size(f, m) /\ one = 1 /\ i = a + 1
  OBVIOUS
<1>2. n <= Len(Canonical(f))
  <2>1. PICK k : k = Len(Canonical(f))
    OBVIOUS
  <2>2. k \in Nat
    BY <2>1, Made
  <2> QED BY <2>1, <2>2
<1>3. s \in Seq(Symbols) /\ a \in Nat /\ z \in Nat /\ a <= z /\ z <= Len(s) /\ Len(s) \in Nat
  <2>1. s \in Seq(Symbols)
    BY <1>1, Composed
  <2>2. a \in Nat /\ z \in Nat /\ z <= Len(s)
    BY <1>1, <1>2, SizeType
  <2>3. a <= z
    BY <1>1, SizeGrows
  <2> QED BY <2>1, <2>2, <2>3
<1>4. p.data = SubSeq(s, 1, a) /\ q.data = SubSeq(s, 1, z)
  <2>1. Told(f, n, p) /\ Told(f, m, q)
    BY <1>2, Tells
  <2> QED BY <2>1, <1>1 DEF Told
<1>5. /\ one \in Nat /\ 1 <= one /\ one <= a + 1 /\ one <= z + 1 /\ a <= Len(s) /\ z <= Len(s) /\ one <= Len(s) + 1
      /\ i \in Nat /\ 1 <= i /\ i <= z + 1 /\ a - one + 1 = a /\ z - one + 1 = z /\ z - i + 1 = z - a
  <2>1. PICK l : l = Len(s)
    OBVIOUS
  <2>2. a \in Nat /\ z \in Nat /\ l \in Nat /\ a <= z /\ z <= l /\ one = 1 /\ i = a + 1
    BY <2>1, <1>1, <1>3
  <2>3. one \in Nat /\ 1 <= one /\ one <= a + 1 /\ one <= z + 1 /\ a <= l /\ z <= l /\ one <= l + 1
    BY <2>2
  <2>4. i \in Nat /\ 1 <= i /\ i <= z + 1 /\ a - one + 1 = a /\ z - one + 1 = z /\ z - i + 1 = z - a
    BY <2>2
  <2> QED BY <2>1, <2>3, <2>4
<1>6. Len(SubSeq(s, one, a)) = a - one + 1
  BY <1>3, <1>5, Stretch
<1>7. Len(SubSeq(s, one, z)) = z - one + 1
  BY <1>3, <1>5, Stretch
<1>8. Len(p.data) = a /\ Len(q.data) = z
  BY <1>1, <1>4, <1>5, <1>6, <1>7
<1>9. news = SubSeq(s, i, z)
  <2>1. From(q.data, Len(p.data) + 1) = SubSeq(SubSeq(s, 1, z), i, z)
    BY <1>1, <1>4, <1>8 DEF From
  <2>2. SubSeq(SubSeq(s, 1, z), i, z) = SubSeq(s, i, z)
    BY <1>3, <1>5, Shorter
  <2> QED BY <2>1, <2>2
<1>10. SubSeq(s, one, a) \o SubSeq(s, a + 1, z) = SubSeq(s, one, z)
  BY <1>3, <1>5, Stretches
<1>11. Len(SubSeq(s, i, z)) = z - i + 1 /\ SubSeq(s, i, z) \in Seq(Symbols)
  BY <1>3, <1>5, Stretch
<1>12. news # <<>> <=> a # z
  <2>1. Len(news) = z - a /\ news \in Seq(Symbols)
    BY <1>5, <1>9, <1>11
  <2>2. news = <<>> <=> Len(news) = 0
    BY <2>1
  <2>3. z - a = 0 <=> a = z
    BY <1>3
  <2> QED BY <2>1, <2>2, <2>3
<1>13. SubSeq(f.data, 1, Size(f, n)) \o news = SubSeq(f.data, 1, Size(f, m))
  BY <1>1, <1>9, <1>10
<1>14. Len(SubSeq(f.data, 1, Size(f, n))) = Size(f, n)
  BY <1>1, <1>5, <1>6
<1> QED BY <1>1, <1>8, <1>12, <1>13, <1>14 DEF DataMore

(* Where the file part has been told of, its header block is over.         *)
LEMMA Begun ==
  ASSUME NEW f, WellComposed(f), NEW n \in Nat, n <= Len(Canonical(f)), Size(f, n) > 0 \/ DoneAt(f, n)
  PROVE  n >= HeadSize(f.lines) /\ f.lines[1] # "O"
<1>1. PICK h, t : h = HeadSize(f.lines) /\ t = AfterData(f)
  OBVIOUS
<1>2. h \in Nat /\ t \in Nat /\ h <= t
  <2>1. PICK e, d, q : e = DataEnd(f) /\ d = Len(f.data) /\ q = Len(Delimiter)
    OBVIOUS
  <2>2. h \in Nat /\ e = h + d /\ d \in Nat
    BY <2>1, <1>1, Made
  <2>3. q \in Nat /\ t = e + q
    <3>1. q \in Nat
      BY <2>1, Marks
    <3> QED BY <3>1, <2>1, <1>1 DEF AfterData
  <2> QED BY <2>2, <2>3
<1>3. CASE Size(f, n) > 0
  <2>1. ~(n < h \/ f.lines[1] = "O")
    <3>1. n < h \/ f.lines[1] = "O" => Size(f, n) = 0
      BY <1>1 DEF Size
    <3> QED BY <3>1, <1>3
  <2> QED BY <2>1, <1>1, <1>2
<1>4. CASE DoneAt(f, n)
  <2>1. f.lines[1] # "O" /\ n >= t + 2
    BY <1>1, <1>4 DEF DoneAt
  <2> QED BY <2>1, <1>1, <1>2
<1> QED BY <1>3, <1>4

(* A part that is done stays done.                                         *)
LEMMA DoneStays ==
  ASSUME NEW f, NEW n \in Nat, NEW m \in Nat, n <= m, DoneAt(f, n), AfterData(f) \in Nat, Len(Canonical(f)) \in Nat
  PROVE  DoneAt(f, m)
<1>1. PICK t, k : t = AfterData(f) /\ k = Len(Canonical(f))
  OBVIOUS
<1>2. n >= t + 2 => m >= t + 2
  BY <1>1
<1>3. n >= k => m >= k
  BY <1>1
<1> QED BY <1>1, <1>2, <1>3 DEF DoneAt

(* A piece is fed on: nothing stays held against the body, or a flaw is.   *)
LEMMA FeedsPiece ==
  ASSUME NEW u \in Uploads, NEW f, f = u.form, WellComposed(f), NEW n \in Nat, NEW m \in Nat, NEW k \in Nat,
         n <= m, m <= n + FeedSlice, m <= k, k <= Len(Canonical(f)),
         NEW b, IsBody(b), FedTo(u, f, b, n), HeadTo(f, b, k)
  PROVE  LET d == FeedPiece(u, b, SubSeq(Canonical(f), n + 1, m)) IN
         /\ IsBody(d) /\ SameReading(b, d)
         /\ FedTo(u, f, d, m) \/ Failed(u, f, d)
<1>1. PICK c, piece : c = Canonical(f) /\ piece = SubSeq(c, n + 1, m)
  OBVIOUS
<1>2. c \in Seq(Symbols) /\ Len(c) \in Nat /\ n <= Len(c) /\ m <= Len(c) /\ FeedSlice \in Nat /\ MaxOverhead \in Nat
  <2>1. c \in Seq(Symbols) /\ Len(c) \in Nat
    BY <1>1, Made
  <2>2. PICK l : l = Len(c)
    OBVIOUS
  <2>3. l \in Nat /\ k <= l
    BY <2>1, <2>2, <1>1
  <2>4. n <= l /\ m <= l
    BY <2>3
  <2> QED BY <2>1, <2>2, <2>4, FilePartAssumption
<1>3. b.error = "none" /\ b.parser = StateAt(f, n) /\ b.fed = n /\ b.seen = SubSeq(c, 1, n)
      /\ b.stored = SubSeq(f.data, 1, Size(f, n))
  BY <1>1 DEF FedTo
<1>4. /\ FaultAt(f, n) = "none" /\ n - Size(f, n) <= MaxOverhead /\ SizeError(u, Size(f, n)) = "none"
      /\ b.announced <=> Size(f, n) > 0 \/ DoneAt(f, n)
      /\ b.announced => Judged(f, b)
  BY DEF FedTo
<1>5. PICK p, q, news, refused, a, z, d :
        /\ p = StateAt(f, n) /\ q = StateAt(f, m) /\ news = From(q.data, Len(p.data) + 1)
        /\ refused = RefusedFor(u, b, q, news) /\ a = Size(f, n) /\ z = Size(f, m) /\ d = FeedPiece(u, b, piece)
  OBVIOUS
<1>6. Parse(p, piece) = q
  <2>1. Parse(StateAt(f, n), SubSeq(Canonical(f), n + 1, m)) = StateAt(f, m)
    <3>1. m <= Len(Canonical(f))
      BY <1>1, <1>2
    <3> QED BY <3>1, Parses
  <2> QED BY <2>1, <1>1, <1>5
<1>7. PICK over : Received(u, b, piece, d, q, news, refused, over)
  <2>1. q = Parse(b.parser, piece) /\ news = From(q.data, Len(b.parser.data) + 1)
    BY <1>3, <1>5, <1>6
  <2>2. \E over : Received(u, b, piece, FeedPiece(u, b, piece), q, news, refused, over)
    BY <2>1, <1>3, <1>5, PieceSets
  <2> QED BY <2>2, <1>5
<1>8. Len(piece) = m - n /\ SubSeq(c, 1, n) \o piece = SubSeq(c, 1, m)
  <2>1. PICK one, i : one = 1 /\ i = n + 1
    OBVIOUS
  <2>2. one \in Nat /\ 1 <= one /\ one <= n + 1 /\ i \in Nat /\ 1 <= i /\ i <= m + 1 /\ m - i + 1 = m - n
    BY <2>1
  <2>3. Len(SubSeq(c, i, m)) = m - i + 1
    BY <2>2, <1>2, Stretch
  <2>4. SubSeq(c, one, n) \o SubSeq(c, n + 1, m) = SubSeq(c, one, m)
    BY <2>2, <1>2, Stretches
  <2> QED BY <2>1, <2>2, <2>3, <2>4, <1>1
<1>9. IsBody(d) /\ SameReading(b, d) /\ d.parser = q /\ d.fed = m /\ d.seen = SubSeq(c, 1, m)
  <2>1. n + (m - n) = m
    OBVIOUS
  <2> QED BY <2>1, <1>3, <1>7, <1>8 DEF Received
<1>10. /\ a \in Nat /\ z \in Nat /\ a <= z /\ z <= Len(f.data) /\ Len(f.data) \in Nat
       /\ Len(p.data) = a /\ Len(q.data) = z
       /\ SubSeq(f.data, 1, a) \o news = SubSeq(f.data, 1, z)
       /\ (news # <<>> <=> a # z)
       /\ Len(SubSeq(f.data, 1, a)) = a /\ Len(SubSeq(f.data, 1, z)) = z
  <2>1. n <= Len(Canonical(f)) /\ m <= Len(Canonical(f))
    BY <1>1, <1>2
  <2>2. a \in Nat /\ z \in Nat /\ z <= Len(f.data) /\ a <= z
    BY <2>1, <1>5, SizeType, SizeGrows
  <2>3. Len(f.data) \in Nat
    BY Made
  <2>4. /\ Len(p.data) = a /\ Len(q.data) = z
        /\ SubSeq(f.data, 1, a) \o news = SubSeq(f.data, 1, z)
        /\ (news # <<>> <=> a # z)
        /\ Len(SubSeq(f.data, 1, a)) = a
    <3>1. p = StateAt(f, n) /\ q = StateAt(f, m) /\ news = From(q.data, Len(p.data) + 1)
      BY <1>5
    <3>2. DataMore(f, n, m, p, q, news)
      BY <2>1, <3>1, MoreData
    <3> QED BY <3>2, <1>5 DEF DataMore
  <2>5. Len(SubSeq(f.data, 1, z)) = z
    <3>1. PICK r, v : r = q /\ v = From(r.data, Len(r.data) + 1)
      OBVIOUS
    <3>2. m <= m
      OBVIOUS
    <3>3. r = StateAt(f, m)
      BY <3>1, <1>5
    <3>4. DataMore(f, m, m, r, r, v)
      BY <3>1, <3>2, <3>3, <2>1, MoreData
    <3> QED BY <3>4, <1>5 DEF DataMore
  <2> QED BY <2>2, <2>3, <2>4, <2>5
<1>11. Told(f, m, q)
  <2>1. m <= Len(Canonical(f))
    BY <1>1, <1>2
  <2> QED BY <2>1, <1>5, Tells
<1>12. Announces(b, q) <=> ~b.announced /\ (z > a \/ DoneAt(f, m))
  BY <1>3, <1>5, <1>10, <1>11 DEF Announces, Told
(* What an announcement makes of the part.                                 *)
<1>13. z > 0 \/ DoneAt(f, m) => b.headDone /\ Named(f, q) /\ (b.headRead => b.headType = TypeOf(f.lines, TRUE))
  <2> SUFFICES ASSUME z > 0 \/ DoneAt(f, m)
               PROVE  b.headDone /\ Named(f, q) /\ (b.headRead => b.headType = TypeOf(f.lines, TRUE))
    OBVIOUS
  <2>1. m >= HeadSize(f.lines) /\ f.lines[1] # "O"
    <3>1. m <= Len(Canonical(f)) /\ (Size(f, m) > 0 \/ DoneAt(f, m))
      BY <1>1, <1>2, <1>5
    <3> QED BY <3>1, Begun
  <2>2. Named(f, q)
    BY <2>1, <1>11 DEF Told, Named
  <2>3. ~(k < HeadSize(f.lines))
    <3>1. HeadSize(f.lines) \in Nat
      BY Made
    <3> QED BY <3>1, <2>1
  <2>4. b.headDone
    BY <2>3 DEF HeadTo
  <2>5. b.headRead => b.headType = TypeOf(f.lines, TRUE)
    BY <2>4 DEF HeadTo
  <2> QED BY <2>2, <2>4, <2>5
<1>14. PICK wrong : wrong = IF f.lines[1] = "E" THEN "missing_file" ELSE TypeError(f.lines, b.headRead)
  OBVIOUS
<1>15. Announces(b, q) =>
         /\ AnnounceError(b, q) = wrong
         /\ (IF b.headRead THEN b.headType ELSE q.type) = TypeOf(f.lines, b.headRead)
  <2>1. Announces(b, q) => Named(f, q) /\ (b.headRead => b.headType = TypeOf(f.lines, TRUE))
    <3>1. z > a => z > 0
      BY <1>10
    <3> QED BY <3>1, <1>12, <1>13
  <2> QED BY <2>1, <1>14, AnnouncedRight
<1>16. refused = IF Announces(b, q) /\ wrong # "none" THEN wrong
                 ELSE IF a # z THEN SizeError(u, z) ELSE "none"
  <2>1. PICK x, y : /\ x = (IF Announces(b, q) THEN AnnounceError(b, q) ELSE "none")
                    /\ y = (IF news # <<>> THEN SizeError(u, Len(q.data)) ELSE "none")
    OBVIOUS
  <2>2. refused = FirstError(<<x, y>>)
    BY <2>1, <1>5 DEF RefusedFor
  <2>3. FirstError(<<x, y>>) = IF x # "none" THEN x ELSE y
    BY FirstOfTwo
  <2>4. x = IF Announces(b, q) THEN wrong ELSE "none"
    BY <2>1, <1>15
  <2>5. y = IF a # z THEN SizeError(u, z) ELSE "none"
    BY <2>1, <1>10
  <2> QED BY <2>2, <2>3, <2>4, <2>5
<1>17. q.fault = FaultAt(f, m)
  BY <1>11 DEF Told
<1>18. d.error = IF refused # "none" THEN refused ELSE IF FaultAt(f, m) # "none" THEN FaultAt(f, m)
                 ELSE IF over THEN "part_headers_too_large" ELSE "none"
  <2>1. PICK x, y : x = FirstError(<<refused, q.fault>>) /\ y = IF over THEN "part_headers_too_large" ELSE "none"
    OBVIOUS
  <2>2. d.error = FirstError(<<x, y>>)
    BY <2>1, <1>7 DEF Received
  <2>3. x = IF refused # "none" THEN refused ELSE q.fault
    BY <2>1, FirstOfTwo
  <2>4. FirstError(<<x, y>>) = IF x # "none" THEN x ELSE y
    BY FirstOfTwo
  <2> QED BY <2>1, <2>2, <2>3, <2>4, <1>17
<1>19. d.stored = IF refused = "none" THEN SubSeq(f.data, 1, z) ELSE SubSeq(f.data, 1, a)
  <2>1. d.stored = IF refused = "none" THEN b.stored \o news ELSE b.stored
    BY <1>7 DEF Received
  <2>2. b.stored = SubSeq(f.data, 1, a)
    BY <1>3, <1>5
  <2> QED BY <2>1, <2>2, <1>10
<1>20. over <=> m - Len(d.stored) > MaxOverhead
  BY <1>7, <1>9 DEF Received
<1>21. Len(d.stored) = IF refused = "none" THEN z ELSE a
  BY <1>10, <1>19
<1>22. Bounded(d)
  <2>1. PICK x : x = Len(d.stored)
    OBVIOUS
  <2>2. x \in {a, z} /\ n - a <= MaxOverhead
    BY <2>1, <1>4, <1>5, <1>21
  <2>3. m - x <= MaxOverhead + FeedSlice
    BY <2>2, <1>2, <1>10
  <2> QED BY <2>1, <2>3, <1>9 DEF Bounded
<1>23. SameHead(b, d)
  BY <1>9 DEF SameReading
<1>24. IsBody(d) /\ SameReading(b, d)
  BY <1>9
<1>25. d.error # "none" => \A w \in BOOLEAN : (b.headDone => w = b.headRead) => d.error \in Flaws(u, w)
  <2> SUFFICES ASSUME d.error # "none", NEW w \in BOOLEAN, b.headDone => w = b.headRead
               PROVE  d.error \in Flaws(u, w)
    OBVIOUS
  <2>1. CASE Announces(b, q) /\ wrong # "none"
    <3>1. refused = wrong
      BY <2>1, <1>16
    <3>2. d.error = wrong
      BY <3>1, <2>1, <1>18
    <3>3. w = b.headRead
      <4>1. z > a => z > 0
        BY <1>10
      <4> QED BY <4>1, <2>1, <1>12, <1>13
    <3>4. CASE f.lines[1] = "E"
      BY <3>2, <3>4, <1>14, FlawsOf
    <3>5. CASE f.lines[1] # "E"
      <4>1. wrong = TypeError(f.lines, w)
        BY <3>3, <3>5, <1>14
      <4>2. TypeError(f.lines, w) # "none" => TypeError(f.lines, w) \in Flaws(u, w)
        BY FlawsOf
      <4> QED BY <4>1, <4>2, <3>2, <2>1
    <3> QED BY <3>4, <3>5
  <2>2. CASE ~(Announces(b, q) /\ wrong # "none") /\ refused # "none"
    <3>1. d.error = SizeError(u, z) /\ SizeError(u, z) # "none"
      BY <2>2, <1>16, <1>18
    <3>2. PICK y : y = Len(f.data)
      OBVIOUS
    <3>3. LengthError(u, y) = SizeError(u, z)
      <4>1. y \in Nat /\ z <= y
        BY <3>2, <1>10
      <4> QED BY <4>1, <3>1, <1>10, SizesAgree
    <3>4. LengthError(u, Len(f.data)) # "none" => LengthError(u, Len(f.data)) \in Flaws(u, w)
      BY FlawsOf
    <3> QED BY <3>1, <3>2, <3>3, <3>4
  <2>3. CASE refused = "none" /\ FaultAt(f, m) # "none"
    <3>1. d.error = FaultAt(f, m)
      BY <2>3, <1>18
    <3> QED BY <3>1, <2>3, FaultIsFlaw
  <2>4. CASE refused = "none" /\ FaultAt(f, m) = "none"
    <3>1. over /\ d.error = "part_headers_too_large"
      BY <2>4, <1>18
    <3>2. m - z > MaxOverhead
      BY <3>1, <2>4, <1>20, <1>21
    <3>3. m - z <= Overhead(f)
      <4>1. m <= Len(Canonical(f))
        BY <1>1, <1>2
      <4> QED BY <4>1, <2>4, <1>5, OverheadReached
    <3>4. Overhead(f) \in Int
      <4>1. PICK x, y, v : x = Len(Canonical(f)) /\ y = Len(f.data) /\ v = Len(Delimiter)
        OBVIOUS
      <4>2. x \in Nat /\ y \in Nat /\ v \in Nat
        BY <4>1, Made
      <4>3. Overhead(f) = x - y + (IF f.then = "cut" THEN v ELSE 0)
        BY <4>1 DEF Overhead
      <4> QED BY <4>2, <4>3
    <3>5. Overhead(f) > MaxOverhead
      BY <3>2, <3>3, <3>4, <1>2, <1>10
    <3> QED BY <3>1, <3>5, FlawsOf
  <2> QED BY <2>1, <2>2, <2>3, <2>4
<1>26. d.error # "none" => Failed(u, f, d)
  <2> SUFFICES ASSUME d.error # "none" PROVE Failed(u, f, d)
    OBVIOUS
  <2>1. SomeFlaw(u, d)
    BY <1>23, <1>25 DEF SomeFlaw, SameHead
  <2>2. m <= Len(Canonical(f)) /\ d.seen = SubSeq(Canonical(f), 1, m)
    BY <1>1, <1>2, <1>9
  <2> QED BY <2>1, <2>2, <1>22 DEF Failed
<1>27. d.error = "none" => FedTo(u, f, d, m)
  <2> SUFFICES ASSUME d.error = "none" PROVE FedTo(u, f, d, m)
    OBVIOUS
  <2>1. refused = "none" /\ FaultAt(f, m) = "none" /\ ~over
    BY <1>18
  <2>2. d.stored = SubSeq(f.data, 1, z) /\ m - z <= MaxOverhead
    <3>1. ~(m - z > MaxOverhead)
      BY <2>1, <1>20, <1>21
    <3> QED BY <3>1, <2>1, <1>2, <1>10, <1>19
  <2>3. SizeError(u, z) = "none"
    BY <2>1, <1>4, <1>5, <1>16
  <2>4. Announces(b, q) => wrong = "none"
    BY <2>1, <1>16
  <2>5. d.announced <=> z > 0 \/ DoneAt(f, m)
    <3>1. d.announced <=> b.announced \/ Announces(b, q)
      BY <1>7 DEF Received
    <3>2. b.announced <=> a > 0 \/ DoneAt(f, n)
      BY <1>4, <1>5
    <3>3. DoneAt(f, n) => DoneAt(f, m)
      <4>1. AfterData(f) \in Nat /\ Len(Canonical(f)) \in Nat
        <5>1. PICK e, v : e = DataEnd(f) /\ v = Len(Delimiter)
          OBVIOUS
        <5>2. e \in Nat /\ Len(Canonical(f)) \in Nat
          BY <5>1, Made
        <5>3. v \in Nat
          BY <5>1, Marks
        <5> QED BY <5>1, <5>2, <5>3 DEF AfterData
      <4> QED BY <4>1, DoneStays
    <3>4. (a > 0 => z > 0) /\ (z > a => z > 0) /\ (z > 0 => a > 0 \/ z > a)
      BY <1>10
    <3> QED BY <3>1, <3>2, <3>3, <3>4, <1>12
  <2>6. d.announced => Judged(f, d)
    <3>1. CASE Announces(b, q)
      <4>1. wrong = "none" /\ d.whole = b.headRead /\ d.line = TypeOf(f.lines, b.headRead)
        BY <2>4, <3>1, <1>7, <1>15 DEF Received
      <4>2. f.lines[1] # "E" /\ TypeError(f.lines, b.headRead) = "none"
        BY <4>1, <1>14
      <4> QED BY <4>1, <4>2, <1>23 DEF Judged, SameHead
    <3>2. CASE ~Announces(b, q)
      <4>1. (d.announced <=> b.announced) /\ d.whole = b.whole /\ d.line = b.line
        BY <3>2, <1>7 DEF Received
      <4> QED BY <4>1, <1>4, <1>23 DEF Judged, SameHead
    <3> QED BY <3>1, <3>2
  <2> QED BY <2>1, <2>2, <2>3, <2>5, <2>6, <1>1, <1>5, <1>9 DEF FedTo
<1>28. d = FeedPiece(u, b, SubSeq(Canonical(f), n + 1, m))
  BY <1>1, <1>5
<1> QED BY <1>24, <1>26, <1>27, <1>28

----------------------------------------------------------------------------
(* All pieces of a read.                                                   *)

(* The bodies g after each of the first n pieces.                          *)
Upto(g, u, b, pieces, n) ==
  /\ g = [i \in 0..n |-> g[i]] /\ g[0] = b
  /\ \A i \in 1..n : g[i] = FeedPiece(u, g[i - 1], pieces[i])

(* The bodies after each piece, as FeedPieces goes through them.           *)
LEMMA UptoExists ==
  ASSUME NEW u, NEW b, NEW pieces, NEW n \in Nat
  PROVE  \E g : Upto(g, u, b, pieces, n)
<1> DEFINE S == {i \in Nat : \E g : Upto(g, u, b, pieces, i)}
<1>1. 0 \in S
  <2>1. PICK g : g = [i \in 0..0 |-> b]
    OBVIOUS
  <2>2. g = [i \in 0..0 |-> g[i]] /\ g[0] = b /\ 1..0 = {}
    BY <2>1
  <2>3. Upto(g, u, b, pieces, 0)
    BY <2>2 DEF Upto
  <2> QED BY <2>3
<1>2. ASSUME NEW i \in Nat, i \in S PROVE i + 1 \in S
  <2>1. PICK g : Upto(g, u, b, pieces, i)
    BY <1>2
  <2>2. PICK last, m : last = FeedPiece(u, g[i], pieces[i + 1]) /\ m = i + 1
    OBVIOUS
  <2>3. PICK h : h = [j \in 0..m |-> IF j = m THEN last ELSE g[j]]
    OBVIOUS
  <2>4. /\ h = [j \in 0..m |-> h[j]] /\ h[m] = last
        /\ \A j \in 0..i : h[j] = g[j]
    <3>1. m \in Nat /\ m \in 0..m /\ \A j \in 0..i : j \in 0..m /\ j # m
      BY <2>2
    <3> QED BY <2>3, <3>1
  <2>5. h[0] = b
    <3>1. 0 \in 0..i
      OBVIOUS
    <3> QED BY <3>1, <2>1, <2>4 DEF Upto
  <2>6. ASSUME NEW j \in 1..m PROVE h[j] = FeedPiece(u, h[j - 1], pieces[j])
    <3>1. CASE j = m
      <4>1. j - 1 = i /\ j - 1 \in 0..i /\ pieces[j] = pieces[i + 1]
        BY <3>1, <2>2
      <4> QED BY <4>1, <3>1, <2>2, <2>4
    <3>2. CASE j # m
      <4>1. j \in 1..i /\ j \in 0..i /\ j - 1 \in 0..i
        BY <3>2, <2>2, <2>6
      <4>2. g[j] = FeedPiece(u, g[j - 1], pieces[j])
        BY <4>1, <2>1 DEF Upto
      <4> QED BY <4>1, <4>2, <2>4
    <3> QED BY <3>1, <3>2
  <2>7. Upto(h, u, b, pieces, m)
    BY <2>4, <2>5, <2>6 DEF Upto
  <2> QED BY <2>2, <2>7
<1>3. n \in S
  <2> HIDE DEF S
  <2> QED BY <1>1, <1>2, SetInduction
<1> QED BY <1>3

(* FeedPieces ends with the last of them.                                  *)
LEMMA FeedsAll ==
  ASSUME NEW u, NEW b, NEW pieces, NEW n \in Nat, n = Len(pieces)
  PROVE  \E g : Upto(g, u, b, pieces, n) /\ FeedPieces(u, b, pieces) = g[n]
<1> DEFINE Unrolled(h) == [i \in 0..n |-> IF i = 0 THEN b ELSE FeedPiece(u, h[i - 1], pieces[i])]
           upTo == CHOOSE h : h = Unrolled(h)
<1>1. FeedPieces(u, b, pieces) = upTo[n]
  BY DEF FeedPieces
<1>2. \E h : h = Unrolled(h)
  <2>1. PICK g : Upto(g, u, b, pieces, n)
    BY UptoExists
  <2>2. \A i \in 0..n : g[i] = IF i = 0 THEN b ELSE FeedPiece(u, g[i - 1], pieces[i])
    <3> SUFFICES ASSUME NEW i \in 0..n PROVE g[i] = IF i = 0 THEN b ELSE FeedPiece(u, g[i - 1], pieces[i])
      OBVIOUS
    <3>1. i = 0 \/ i \in 1..n
      OBVIOUS
    <3> QED BY <3>1, <2>1 DEF Upto
  <2>3. [i \in 0..n |-> g[i]] = [i \in 0..n |-> IF i = 0 THEN b ELSE FeedPiece(u, g[i - 1], pieces[i])]
    BY <2>2
  <2>4. g = [i \in 0..n |-> g[i]]
    BY <2>1 DEF Upto
  <2>5. g = Unrolled(g)
    BY <2>3, <2>4
  <2> HIDE DEF Unrolled
  <2> QED BY <2>5
<1>3. upTo = Unrolled(upTo)
  <2> HIDE DEF Unrolled
  <2> QED BY <1>2
<1> HIDE DEF upTo
<1>4. \A i \in 0..n : Unrolled(upTo)[i] = IF i = 0 THEN b ELSE FeedPiece(u, upTo[i - 1], pieces[i])
  OBVIOUS
<1>5. Unrolled(upTo) = [i \in 0..n |-> Unrolled(upTo)[i]]
  OBVIOUS
<1> HIDE DEF Unrolled
<1>6. upTo = [i \in 0..n |-> upTo[i]]
  BY <1>3, <1>5
<1>7. upTo[0] = b /\ \A i \in 1..n : upTo[i] = FeedPiece(u, upTo[i - 1], pieces[i])
  <2>1. 0 \in 0..n /\ \A i \in 1..n : i \in 0..n /\ i # 0
    OBVIOUS
  <2>2. \A i \in 0..n : upTo[i] = IF i = 0 THEN b ELSE FeedPiece(u, upTo[i - 1], pieces[i])
    BY <1>3, <1>4
  <2> QED BY <2>1, <2>2
<1>8. Upto(upTo, u, b, pieces, n)
  BY <1>6, <1>7 DEF Upto
<1> QED BY <1>1, <1>8

(* The pieces of a read's text, each a slice of it.                        *)
Cut(len, i) == IF i * FeedSlice <= len THEN i * FeedSlice ELSE len

(* The slices follow one another up to the end of the text.                *)
LEMMA Slices ==
  ASSUME NEW len \in Nat
  PROVE  /\ (len + FeedSlice - 1) \div FeedSlice \in Nat
         /\ Cut(len, (len + FeedSlice - 1) \div FeedSlice) = len
         /\ Cut(len, 0) = 0
         /\ \A i \in Nat : /\ Cut(len, i) \in Nat /\ Cut(len, i) <= len
                           /\ Cut(len, i) <= Cut(len, i + 1) /\ Cut(len, i + 1) <= Cut(len, i) + FeedSlice
         /\ \A i \in Nat : i < (len + FeedSlice - 1) \div FeedSlice =>
              Cut(len, i) = i * FeedSlice /\ Cut(len, i) < len
<1>1. PICK s, y : s = FeedSlice /\ y = (len + FeedSlice - 1) \div FeedSlice
  OBVIOUS
<1>2. s \in Nat /\ s >= 1
  BY <1>1, FilePartAssumption
<1>3. y \in Nat /\ y * s <= len + s - 1 /\ len + s - 1 < y * s + s
  <2>1. PICK x : x = len + s - 1
    OBVIOUS
  <2>2. x \in Nat
    BY <2>1, <1>2
  <2>3. y = x \div s
    BY <2>1, <1>1
  <2>4. y \in Nat /\ y * s <= x /\ x < y * s + s
    BY <2>2, <2>3, <1>2
  <2> QED BY <2>1, <2>4
<1>4. ASSUME NEW i \in Nat
      PROVE  i * s \in Nat /\ (i + 1) * s = i * s + s
  BY <1>2
<1>5. Cut(len, y) = len
  <2>1. y * s \in Nat /\ y * s >= len
    BY <1>2, <1>3, <1>4
  <2> QED BY <2>1, <1>1 DEF Cut
<1>6. Cut(len, 0) = 0
  <2>1. 0 * s = 0
    BY <1>2
  <2> QED BY <2>1, <1>1 DEF Cut
<1>7. ASSUME NEW i \in Nat
      PROVE  /\ Cut(len, i) \in Nat /\ Cut(len, i) <= len
             /\ Cut(len, i) <= Cut(len, i + 1) /\ Cut(len, i + 1) <= Cut(len, i) + FeedSlice
  <2>1. PICK a, b : a = i * s /\ b = (i + 1) * s
    OBVIOUS
  <2>2. a \in Nat /\ b = a + s
    BY <2>1, <1>4
  <2>3. Cut(len, i) = (IF a <= len THEN a ELSE len) /\ Cut(len, i + 1) = IF b <= len THEN b ELSE len
    BY <2>1, <1>1 DEF Cut
  <2> QED BY <2>2, <2>3, <1>1, <1>2
<1>8. ASSUME NEW i \in Nat, i < y
      PROVE  Cut(len, i) = i * s /\ Cut(len, i) < len
  <2>1. PICK a, b : a = i * s /\ b = y * s
    OBVIOUS
  <2>2. a \in Nat /\ b \in Nat /\ a + s <= b
    <3>1. PICK j : j = y - i
      OBVIOUS
    <3>2. j \in Nat /\ j >= 1 /\ y = i + j
      BY <3>1, <1>3, <1>8
    <3>3. (i + j) * s = i * s + j * s /\ j * s \in Nat /\ j * s >= s
      BY <3>2, <1>2
    <3>4. a \in Nat /\ b \in Nat
      BY <2>1, <1>3, <1>4
    <3> QED BY <2>1, <3>2, <3>3, <3>4, <1>2
  <2>3. a < len
    BY <2>1, <2>2, <1>2, <1>3
  <2> QED BY <2>1, <2>2, <2>3, <1>1 DEF Cut
<1> QED BY <1>1, <1>3, <1>5, <1>6, <1>7, <1>8

(* The pieces are the slices.                                              *)
SlicesOf(c, n, k, l, pieces) ==
  /\ Len(pieces) = l
  /\ \A i \in 1..l : pieces[i] = SubSeq(c, n + Cut(k - n, i - 1) + 1, n + Cut(k - n, i))
LEMMA PiecesAre ==
  ASSUME NEW c \in Seq(Symbols), NEW n \in Nat, NEW k \in Nat, n <= k, k <= Len(c),
         NEW out, out = SubSeq(c, n + 1, k), NEW l, l = ((k - n) + FeedSlice - 1) \div FeedSlice
  PROVE  SlicesOf(c, n, k, l, Pieces(out))
<1>1. PICK len, s, j : len = k - n /\ s = FeedSlice /\ j = n + 1
  OBVIOUS
<1>2. len \in Nat /\ s \in Nat /\ n + len = k /\ j \in Nat /\ 1 <= j /\ j <= k + 1 /\ k - j + 1 = len
  BY <1>1, FilePartAssumption
<1>3. out \in Seq(Symbols) /\ Len(out) = len
  <2>1. SubSeq(c, j, k) \in Seq(Symbols) /\ Len(SubSeq(c, j, k)) = k - j + 1
    BY <1>2, Stretch
  <2> QED BY <2>1, <1>1, <1>2
<1>4. l = (len + FeedSlice - 1) \div FeedSlice /\ l \in Nat
  <2>1. l = (len + FeedSlice - 1) \div FeedSlice
    BY <1>1
  <2> QED BY <2>1, <1>2, Slices
<1>5. Pieces(out) = [i \in 1..l |-> SubSeq(out, (i - 1) * FeedSlice + 1, Min({i * FeedSlice, Len(out)}))]
  <2>1. l = (Len(out) + FeedSlice - 1) \div FeedSlice
    BY <1>3, <1>4
  <2> QED BY <2>1, Zenon DEF Pieces
<1>6. Len(Pieces(out)) = l
  <2>1. PICK x : x = Pieces(out)
    OBVIOUS
  <2>2. DOMAIN x = 1..l
    BY <2>1, <1>5
  <2>3. x = [i \in 1..l |-> x[i]]
    BY <2>1, <1>5
  <2>4. x \in [1..l -> {x[i] : i \in 1..l}]
    BY <2>3
  <2>5. PICK S : S = {x[i] : i \in 1..l}
    OBVIOUS
  <2>6. x \in [1..l -> S]
    BY <2>4, <2>5
  <2>7. x \in Seq(S)
    BY <2>6, <1>4
  <2> QED BY <2>1, <2>2, <2>7, <1>4
<1>7. ASSUME NEW i \in 1..l
      PROVE  Pieces(out)[i] = SubSeq(c, n + Cut(len, i - 1) + 1, n + Cut(len, i))
  <2>1. PICK p, x, y, v : p = i - 1 /\ x = p * FeedSlice + 1 /\ y = Cut(len, i) /\ v = i * FeedSlice
    OBVIOUS
  <2>2. p \in Nat /\ p < l /\ p + 1 = i /\ i \in Nat
    BY <2>1, <1>4
  <2>3. /\ Cut(len, p) \in Nat /\ Cut(len, p) <= len
        /\ Cut(len, p) <= Cut(len, p + 1)
    BY <2>2, <1>2, Slices
  <2>4. Cut(len, p) = p * FeedSlice
    BY <2>2, <1>2, <1>4, Slices
  <2>5. y \in Nat /\ y <= len
    BY <2>1, <2>2, <1>2, Slices
  <2>6. v \in Int
    <3>1. s \in Nat /\ v = i * s
      BY <2>1, <1>1, <1>2
    <3> QED BY <3>1, <2>2
  <2>7. Min({v, len}) = y
    <3>1. Min({v, len}) = IF v <= len THEN v ELSE len
      BY <2>6, <1>2, MinOfTwo
    <3> QED BY <3>1, <2>1 DEF Cut
  <2>8. Pieces(out)[i] = SubSeq(out, x, y)
    <3>1. Pieces(out)[i] = SubSeq(out, (i - 1) * FeedSlice + 1, Min({i * FeedSlice, Len(out)}))
      BY <1>5
    <3> QED BY <3>1, <2>1, <2>7, <1>3
  <2>9. /\ x \in Nat /\ 1 <= x /\ x <= y + 1 /\ y <= k - j + 1
        /\ j + x - 1 = n + Cut(len, p) + 1 /\ j + y - 1 = n + y
    <3>1. PICK z : z = Cut(len, p)
      OBVIOUS
    <3>2. z \in Nat /\ x = z + 1 /\ z <= y /\ j = n + 1
      BY <3>1, <2>1, <2>2, <2>3, <2>4, <1>1
    <3>3. /\ x \in Nat /\ 1 <= x /\ x <= y + 1 /\ y <= k - j + 1
          /\ j + x - 1 = n + z + 1 /\ j + y - 1 = n + y
      BY <3>2, <2>5, <1>2
    <3> QED BY <3>1, <3>3
  <2>10. SubSeq(SubSeq(c, j, k), x, y) = SubSeq(c, j + x - 1, j + y - 1)
    BY <2>5, <2>9, <1>2, StretchWithin
  <2>11. Pieces(out)[i] = SubSeq(c, n + Cut(len, p) + 1, n + y)
    BY <2>8, <2>9, <2>10, <1>1
  <2> QED BY <2>1, <2>11
<1> QED BY <1>1, <1>6, <1>7 DEF SlicesOf

(* Nothing is fed once something is held against a body.                   *)
LEMMA FailedStays ==
  ASSUME NEW u, NEW f, NEW b, Failed(u, f, b), NEW piece
  PROVE  FeedPiece(u, b, piece) = b
BY DEF Failed, FeedPiece

(* All that one read hands on.                                             *)
Fed(u, f, b, d, n) ==
  /\ IsBody(d) /\ SameReading(b, d)
  /\ FedTo(u, f, d, n) \/ Failed(u, f, d)

(* What a read hands on is fed on, piece by piece, with the same outcome   *)
(* as one piece.                                                           *)
LEMMA FeedsPieces ==
  ASSUME NEW u \in Uploads, NEW f, f = u.form, WellComposed(f), NEW n \in Nat, NEW k \in Nat,
         n <= k, k <= Len(Canonical(f)), NEW b, IsBody(b), FedTo(u, f, b, n), HeadTo(f, b, k)
  PROVE  Fed(u, f, b, FeedPieces(u, b, Pieces(SubSeq(Canonical(f), n + 1, k))), k)
<1>1. PICK c, out, l, len, pieces :
        /\ c = Canonical(f) /\ out = SubSeq(c, n + 1, k) /\ len = k - n
        /\ l = (len + FeedSlice - 1) \div FeedSlice /\ pieces = Pieces(out)
  OBVIOUS
<1>2. c \in Seq(Symbols) /\ k <= Len(c) /\ len \in Nat /\ n + len = k
  <2>1. c \in Seq(Symbols) /\ k <= Len(c)
    BY <1>1, Made
  <2>2. len \in Nat /\ n + len = k
    BY <1>1
  <2> QED BY <2>1, <2>2
<1>3. l \in Nat /\ Cut(len, l) = len /\ Cut(len, 0) = 0
  BY <1>1, <1>2, Slices
<1>4. Len(pieces) = l /\ \A i \in 1..l : pieces[i] = SubSeq(c, n + Cut(len, i - 1) + 1, n + Cut(len, i))
  <2>1. out = SubSeq(c, n + 1, k) /\ l = ((k - n) + FeedSlice - 1) \div FeedSlice
    BY <1>1
  <2>2. SlicesOf(c, n, k, l, Pieces(out))
    BY <2>1, <1>2, PiecesAre
  <2> QED BY <2>2, <1>1 DEF SlicesOf
<1>5. PICK g : Upto(g, u, b, pieces, l) /\ FeedPieces(u, b, pieces) = g[l]
  <2>1. l = Len(pieces)
    BY <1>4
  <2> QED BY <2>1, <1>3, FeedsAll
<1> DEFINE S == {i \in Nat : i <= l => Fed(u, f, b, g[i], n + Cut(len, i))}
<1>6. 0 \in S
  <2>1. g[0] = b /\ n + Cut(len, 0) = n
    BY <1>3, <1>5 DEF Upto
  <2>2. Fed(u, f, b, b, n)
    BY DEF Fed, SameReading, SameHead
  <2> QED BY <2>1, <2>2
<1>7. ASSUME NEW i \in Nat, i \in S PROVE i + 1 \in S
  <2> SUFFICES ASSUME i + 1 <= l PROVE Fed(u, f, b, g[i + 1], n + Cut(len, i + 1))
    OBVIOUS
  <2>1. i <= l /\ i + 1 \in 1..l /\ (i + 1) - 1 = i
    BY <1>3
  <2>2. PICK d, x, y, piece : d = g[i] /\ x = n + Cut(len, i) /\ y = n + Cut(len, i + 1) /\ piece = pieces[i + 1]
    OBVIOUS
  <2>3. Fed(u, f, b, d, x)
    BY <2>1, <2>2, <1>7
  <2>4. g[i + 1] = FeedPiece(u, d, piece)
    <3>1. g[i + 1] = FeedPiece(u, g[(i + 1) - 1], pieces[i + 1])
      BY <2>1, <1>5 DEF Upto
    <3> QED BY <3>1, <2>1, <2>2
  <2>5. piece = SubSeq(c, x + 1, y)
    <3>1. pieces[i + 1] = SubSeq(c, n + Cut(len, (i + 1) - 1) + 1, n + Cut(len, i + 1))
      BY <2>1, <1>4
    <3> QED BY <3>1, <2>1, <2>2
  <2>6. x \in Nat /\ y \in Nat /\ x <= y /\ y <= x + FeedSlice /\ y <= k
    <3>1. PICK v, w, s : v = Cut(len, i) /\ w = Cut(len, i + 1) /\ s = FeedSlice
      OBVIOUS
    <3>2. v \in Nat /\ v <= w /\ w <= v + s
      BY <3>1, <1>2, Slices
    <3>3. w \in Nat /\ w <= len
      <4>1. i + 1 \in Nat
        OBVIOUS
      <4> QED BY <4>1, <3>1, <1>2, Slices
    <3>4. x = n + v /\ y = n + w
      BY <3>1, <2>2
    <3>5. s \in Nat
      BY <3>1, FilePartAssumption
    <3>6. x \in Nat /\ y \in Nat /\ x <= y /\ y <= x + s /\ y <= k
      BY <3>2, <3>3, <3>4, <3>5, <1>2
    <3> QED BY <3>1, <3>6
  <2>7. CASE Failed(u, f, d)
    <3>1. FeedPiece(u, d, piece) = d
      BY <2>7, FailedStays
    <3> QED BY <3>1, <2>2, <2>3, <2>4, <2>7 DEF Fed
  <2>8. CASE FedTo(u, f, d, x)
    <3>1. IsBody(d) /\ SameReading(b, d)
      BY <2>3 DEF Fed
    <3>2. HeadTo(f, d, k)
      BY <3>1 DEF SameReading, SameHead, HeadTo
    <3>3. LET e == FeedPiece(u, d, SubSeq(Canonical(f), x + 1, y)) IN
          IsBody(e) /\ SameReading(d, e) /\ (FedTo(u, f, e, y) \/ Failed(u, f, e))
      BY <2>6, <2>8, <3>1, <3>2, FeedsPiece
    <3>4. PICK e : e = FeedPiece(u, d, SubSeq(Canonical(f), x + 1, y))
      OBVIOUS
    <3>5. IsBody(e) /\ SameReading(d, e) /\ (FedTo(u, f, e, y) \/ Failed(u, f, e))
      BY <3>3, <3>4
    <3>6. SameReading(b, e)
      BY <3>1, <3>5 DEF SameReading, SameHead
    <3>7. e = g[i + 1]
      BY <3>4, <2>4, <2>5, <1>1
    <3> QED BY <3>5, <3>6, <3>7, <2>2 DEF Fed
  <2> QED BY <2>3, <2>7, <2>8 DEF Fed
<1>8. l \in S
  <2> HIDE DEF S
  <2> QED BY <1>3, <1>6, <1>7, SetInduction
<1>9. Fed(u, f, b, g[l], k)
  <2>1. n + Cut(len, l) = k
    BY <1>2, <1>3
  <2> QED BY <2>1, <1>3, <1>8
<1> QED BY <1>1, <1>5, <1>9

----------------------------------------------------------------------------
(* One read of a form.                                                     *)

(* What is handed on only grows, up to the whole.                          *)
LEMMA OutLens ==
  ASSUME NEW f, WellComposed(f), NEW k \in Nat, NEW n \in Nat, k <= n
  PROVE  OutLen(f, k) \in Nat /\ OutLen(f, k) <= OutLen(f, n) /\ OutLen(f, n) <= Len(Canonical(f))
<1>1. PICK p, o, x, at, c, e :
        /\ p = Len(f.pre) /\ o = Len(Open) /\ x = FirstFrom(f) /\ at = CloseAt(f) /\ c = Len(Canonical(f))
        /\ e = BodyEnd(f)
  OBVIOUS
<1>2. p \in Nat /\ o \in Nat /\ x = p + o /\ c \in Nat /\ at \in Nat /\ at <= c + 1
  <2>1. p \in Nat
    <3>1. f.pre \in Seq(Symbols)
      BY Composed
    <3> QED BY <3>1, <1>1
  <2>2. o \in Nat /\ x = p + o
    BY <1>1, Marks DEF FirstFrom
  <2>3. c \in Nat
    BY <1>1, Made
  <2>4. e \in Nat /\ e <= c
    BY <1>1, Bodies
  <2>5. at = c + 1 \/ at = e
    BY <1>1 DEF CloseAt
  <2> QED BY <2>1, <2>2, <2>3, <2>4, <2>5
<1>3. \A i \in Nat : OutLen(f, i) = IF i < x THEN 0 ELSE IF i - p < at THEN i - p ELSE c
  BY <1>1 DEF OutLen
<1>4. PICK y, z : y = OutLen(f, k) /\ z = OutLen(f, n)
  OBVIOUS
<1>5. /\ y = IF k < x THEN 0 ELSE IF k - p < at THEN k - p ELSE c
      /\ z = IF n < x THEN 0 ELSE IF n - p < at THEN n - p ELSE c
  BY <1>3, <1>4
<1>6. y \in Nat /\ y <= z /\ z <= c
  BY <1>2, <1>5
<1> QED BY <1>1, <1>4, <1>6

(* A framer that is closed has handed everything on.                       *)
LEMMA ClosedAll ==
  ASSUME NEW f, WellComposed(f), NEW b, NEW n \in Nat, NEW fr, Framed(f, b, fr, n), fr.closed
  PROVE  OutLen(f, n) = Len(Canonical(f))
<1>1. ASSUME NEW buf, NEW carry, NEW started, NEW closed, NEW epilogue, fr = Framing(buf, carry, started, closed, epilogue)
      PROVE  fr.closed = closed
  <2>1. PICK no : no = FALSE
    OBVIOUS
  <2>2. FramerOf(buf, carry, started, closed, epilogue, no).closed = closed
    BY FramerFields
  <2>3. fr = FramerOf(buf, carry, started, closed, epilogue, no)
    BY <1>1, <2>1, Zenon DEF Framing
  <2> QED BY <2>2, <2>3
<1>2. PICK no : no = FALSE
  OBVIOUS
<1>3. ASSUME NEW buf, NEW carry, NEW started, NEW epilogue
      PROVE  fr # Framing(buf, carry, started, FALSE, epilogue)
  <2> SUFFICES ASSUME fr = Framing(buf, carry, started, no, epilogue) PROVE FALSE
    BY <1>2
  <2>1. fr.closed = no
    BY <1>1
  <2> QED BY <2>1, <1>2
<1>4. n >= FirstFrom(f) /\ n - Len(f.pre) >= CloseAt(f)
  BY <1>3 DEF Framed
<1>5. PICK x, m, at : x = FirstFrom(f) /\ m = n - Len(f.pre) /\ at = CloseAt(f)
  OBVIOUS
<1>6. x \in Nat /\ m \in Int /\ at \in Int
  <2>1. f.pre \in Seq(Symbols)
    BY Composed
  <2>2. Len(f.pre) \in Nat /\ Len(Open) \in Nat
    BY <2>1, Marks
  <2>3. BodyEnd(f) \in Nat /\ Len(Canonical(f)) \in Nat
    BY Bodies, Made
  <2> QED BY <2>2, <2>3, <1>5 DEF FirstFrom, CloseAt
<1>7. ~(n < x) /\ ~(m < at)
  BY <1>4, <1>5, <1>6
<1> QED BY <1>5, <1>7 DEF OutLen

LEMMA FedBounds ==
  ASSUME NEW u, NEW f, WellComposed(f), NEW b, NEW n \in Nat, n <= Len(Canonical(f)), FedTo(u, f, b, n)
  PROVE  Bounded(b)
<1>1. PICK z, one : z = Size(f, n) /\ one = 1
  OBVIOUS
<1>2. z \in Nat /\ z <= Len(f.data) /\ n - z <= MaxOverhead
  BY <1>1, SizeType DEF FedTo
<1>3. f.data \in Seq(Symbols)
  BY Composed
<1>4. Len(SubSeq(f.data, one, z)) = z - one + 1
  <2>1. one \in Nat /\ 1 <= one /\ one <= z + 1
    BY <1>1, <1>2
  <2> QED BY <2>1, <1>2, <1>3, Stretch
<1>5. b.fed = n /\ Len(b.stored) = z
  BY <1>1, <1>2, <1>4 DEF FedTo
<1> QED BY <1>2, <1>5, FilePartAssumption DEF Bounded

(* What is known of a body that has been read up to k of its bytes w, and  *)
(* what a read makes of it.                                                *)
ReadTo(u, f, w, b, k) ==
  /\ IsBody(b) /\ Framed(f, w, b.framer, k)
  /\ HeadTo(f, b, OutLen(f, k)) /\ FedTo(u, f, b, OutLen(f, k))
PreambleRefused(f, b) ==
  /\ b.error = "bad_multipart" /\ MayRefusePreamble(f.pre) /\ Bounded(b)
  /\ \E k \in Nat : k <= Len(Canonical(f)) /\ b.seen = SubSeq(Canonical(f), 1, k)
ReadOn(u, f, w, b, n) ==
  \/ PreambleRefused(f, b)
  \/ HeadTo(f, b, OutLen(f, n)) /\ Failed(u, f, b)
  \/ ReadTo(u, f, w, b, n) /\ (b.enough => OutLen(f, n) = Len(Canonical(f)))

(* A body with one field changed.                                          *)
LEMMA FramerPut ==
  ASSUME NEW b, IsBody(b), NEW fr, NEW d, d = [b EXCEPT !.framer = fr]
  PROVE  /\ IsBody(d) /\ SameHead(b, d) /\ d.framer = fr /\ d.parser = b.parser /\ d.fed = b.fed
         /\ d.announced = b.announced /\ d.line = b.line /\ d.whole = b.whole /\ d.stored = b.stored
         /\ d.seen = b.seen /\ d.error = b.error
BY DEF IsBody, HeadFields, OtherFields, SameHead

LEMMA ErrorPut ==
  ASSUME NEW b, IsBody(b), NEW error, NEW d, d = [b EXCEPT !.error = error]
  PROVE  d.error = error /\ d.fed = b.fed /\ d.stored = b.stored /\ d.seen = b.seen
BY DEF IsBody, HeadFields, OtherFields

LEMMA EnoughPut ==
  ASSUME NEW b, IsBody(b), NEW enough, NEW d, d = [b EXCEPT !.enough = enough]
  PROVE  /\ IsBody(d) /\ SameHead(b, d) /\ d.framer = b.framer /\ d.parser = b.parser /\ d.fed = b.fed
         /\ d.announced = b.announced /\ d.line = b.line /\ d.whole = b.whole /\ d.stored = b.stored
         /\ d.seen = b.seen /\ d.error = b.error /\ d.enough = enough
BY DEF IsBody, HeadFields, OtherFields, SameHead

(* One read of a form, cut anywhere.                                       *)
LEMMA FormFeeds ==
  ASSUME NEW u \in Uploads, NEW f, f = u.form, WellComposed(f), NEW w, FormBytes(w, f),
         NEW k \in Nat, NEW n \in Nat, k <= n, n <= Len(w), NEW b, ReadTo(u, f, w, b, k)
  PROVE  ReadOn(u, f, w, FormFeed(u, b, SubSeq(w, k + 1, n)), n)
<1>1. PICK fr, chunk, fed, c, x, y :
        /\ fr = b.framer /\ chunk = SubSeq(w, k + 1, n) /\ fed = Feed(fr, chunk) /\ c = Canonical(f)
        /\ x = OutLen(f, k) /\ y = OutLen(f, n)
  OBVIOUS
<1>2. x \in Nat /\ y \in Nat /\ x <= y /\ x <= Len(c) /\ y <= Len(c) /\ c \in Seq(Symbols)
  <2>1. x \in Nat /\ x <= y /\ y <= Len(c)
    BY <1>1, OutLens
  <2>2. y \in Nat
    <3>1. n <= n
      OBVIOUS
    <3> QED BY <3>1, <1>1, OutLens
  <2>3. Len(c) \in Nat /\ c \in Seq(Symbols)
    BY <1>1, Made
  <2> QED BY <2>1, <2>2, <2>3
<1>3. /\ IsBody(b) /\ Framed(f, w, fr, k) /\ HeadTo(f, b, x) /\ FedTo(u, f, b, x)
  BY <1>1 DEF ReadTo
<1>4. FeedsOn(f, w, fed, k, n)
  <2>1. FeedsOn(f, w, Feed(fr, SubSeq(w, k + 1, n)), k, n)
    BY <1>3, Feeds
  <2> QED BY <2>1, <1>1
<1>5. PICK framed : framed = [b EXCEPT !.framer = fed.framer]
  OBVIOUS
<1>6. /\ IsBody(framed) /\ SameHead(b, framed) /\ framed.framer = fed.framer
      /\ framed.parser = b.parser /\ framed.fed = b.fed
      /\ framed.announced = b.announced /\ framed.line = b.line /\ framed.whole = b.whole
      /\ framed.stored = b.stored /\ framed.seen = b.seen /\ framed.error = b.error
  <2>1. PICK next : next = fed.framer
    OBVIOUS
  <2>2. framed = [b EXCEPT !.framer = next]
    BY <2>1, <1>5
  <2> QED BY <2>1, <2>2, <1>3, FramerPut
<1>7. PICK headed : headed = IF ~b.headDone /\ fed.out # <<>> THEN ReadHead(framed, fed.out) ELSE framed
  OBVIOUS
<1>8. PICK d, enough : d = FeedPieces(u, headed, Pieces(fed.out))
                       /\ enough = (fed.framer.closed /\ fed.framer.epilogue > MaxEpilogue)
  OBVIOUS
<1>9. PICK e : e = FormFeed(u, b, chunk)
  OBVIOUS
<1>10. e = IF fed.framer.refused THEN [framed EXCEPT !.error = "bad_multipart"] ELSE [d EXCEPT !.enough = enough]
  BY <1>1, <1>5, <1>7, <1>8, <1>9, Zenon DEF FormFeed
<1>11. CASE fed.framer.refused
  <2>1. PICK error : error = "bad_multipart"
    OBVIOUS
  <2>2. e = [framed EXCEPT !.error = error]
    BY <2>1, <1>10, <1>11
  <2>3. e.error = error /\ e.fed = framed.fed /\ e.stored = framed.stored /\ e.seen = framed.seen
    BY <2>2, <1>6, ErrorPut
  <2>4. Bounded(b)
    BY <1>2, <1>1, <1>3, FedBounds
  <2>5. Bounded(e)
    BY <2>3, <2>4, <1>6 DEF Bounded
  <2>6. MayRefusePreamble(f.pre)
    BY <1>4, <1>11 DEF FeedsOn
  <2>7. x \in Nat /\ x <= Len(Canonical(f)) /\ e.seen = SubSeq(Canonical(f), 1, x)
    BY <2>3, <1>1, <1>2, <1>3, <1>6 DEF FedTo
  <2>8. PreambleRefused(f, e)
    BY <2>1, <2>3, <2>5, <2>6, <2>7 DEF PreambleRefused
  <2> QED BY <2>8, <1>1, <1>9 DEF ReadOn
<1>12. CASE ~fed.framer.refused
  <2>1. Framed(f, w, fed.framer, n) /\ fed.out = SubSeq(c, x + 1, y)
    BY <1>1, <1>4, <1>12 DEF FeedsOn
  <2>2. fed.out = <<>> => x = y
    <3>1. PICK i : i = x + 1
      OBVIOUS
    <3>2. i \in Nat /\ 1 <= i /\ i <= y + 1 /\ y - i + 1 = y - x
      BY <3>1, <1>2
    <3>3. Len(SubSeq(c, i, y)) = y - i + 1
      BY <3>2, <1>2, Stretch
    <3>4. Len(fed.out) = y - x
      BY <3>1, <3>2, <3>3, <2>1
    <3> QED BY <3>4, <1>2
  <2>3. HeadTo(f, framed, x)
    BY <1>3, <1>6 DEF HeadTo, SameHead
  <2>4. IsBody(headed) /\ SameButHead(framed, headed) /\ HeadTo(f, headed, y)
    <3>1. CASE ~b.headDone /\ fed.out # <<>>
      <4>1. headed = ReadHead(framed, fed.out)
        BY <3>1, <1>7
      <4>2. IsBody(ReadHead(framed, fed.out)) /\ SameButHead(framed, ReadHead(framed, fed.out))
        BY <1>6, HeadSets
      <4>3. ~framed.headDone
        BY <3>1, <1>6 DEF SameHead
      <4>4. HeadTo(f, ReadHead(framed, SubSeq(Canonical(f), x + 1, y)), y)
        BY <4>3, <2>3, <1>1, <1>2, <1>6, ReadsHead
      <4> QED BY <4>1, <4>2, <4>4, <2>1, <1>1
    <3>2. CASE ~(~b.headDone /\ fed.out # <<>>)
      <4>1. headed = framed
        BY <3>2, <1>7
      <4>2. SameButHead(framed, framed)
        BY DEF SameButHead
      <4>3. CASE fed.out = <<>>
        BY <4>1, <4>2, <4>3, <2>2, <2>3, <1>6
      <4>4. CASE b.headDone
        <5>1. framed.headDone
          BY <4>4, <1>6 DEF SameHead
        <5>2. HeadTo(f, framed, y)
          BY <5>1, <2>3 DEF HeadTo
        <5> QED BY <4>1, <4>2, <5>2, <1>6
      <4> QED BY <4>3, <4>4, <3>2
    <3> QED BY <3>1, <3>2
  <2>5. FedTo(u, f, headed, x)
    <3>1. /\ headed.parser = b.parser /\ headed.fed = b.fed /\ headed.announced = b.announced
          /\ headed.line = b.line /\ headed.whole = b.whole /\ headed.stored = b.stored
          /\ headed.seen = b.seen /\ headed.error = b.error
      BY <2>4, <1>6 DEF SameButHead
    <3>2. b.announced => Judged(f, headed)
      <4> SUFFICES ASSUME b.announced PROVE Judged(f, headed)
        OBVIOUS
      <4>1. Judged(f, b)
        BY <1>3 DEF FedTo
      <4>2. b.headDone
        <5>1. Size(f, x) > 0 \/ DoneAt(f, x)
          BY <1>3 DEF FedTo
        <5>2. x >= HeadSize(f.lines)
          BY <5>1, <1>1, <1>2, Begun
        <5>3. ~(x < HeadSize(f.lines))
          <6>1. HeadSize(f.lines) \in Nat
            BY Made
          <6> QED BY <6>1, <5>2, <1>2
        <5> QED BY <5>3, <1>3 DEF HeadTo
      <4>3. headed = framed
        BY <4>2, <1>7
      <4>4. headed.headRead = b.headRead
        BY <4>3, <1>6 DEF SameHead
      <4> QED BY <4>1, <4>4, <3>1 DEF Judged
    <3> QED BY <3>1, <3>2, <1>3 DEF FedTo
  <2>6. Fed(u, f, headed, d, y)
    <3>1. Fed(u, f, headed, FeedPieces(u, headed, Pieces(SubSeq(Canonical(f), x + 1, y))), y)
      BY <2>4, <2>5, <1>1, <1>2, FeedsPieces
    <3> QED BY <3>1, <2>1, <1>1, <1>8
  <2>7. IsBody(d) /\ SameHead(headed, d) /\ d.framer = headed.framer /\ (FedTo(u, f, d, y) \/ Failed(u, f, d))
    BY <2>6 DEF Fed, SameReading
  <2>8. e = [d EXCEPT !.enough = enough]
    BY <1>10, <1>12
  <2>9. /\ IsBody(e) /\ SameHead(d, e) /\ e.framer = d.framer /\ e.parser = d.parser /\ e.fed = d.fed
        /\ e.announced = d.announced /\ e.line = d.line /\ e.whole = d.whole /\ e.stored = d.stored
        /\ e.seen = d.seen /\ e.error = d.error /\ e.enough = enough
    BY <2>7, <2>8, EnoughPut
  <2>10. HeadTo(f, e, y)
    <3>1. SameHead(headed, e)
      BY <2>7, <2>9 DEF SameHead
    <3> QED BY <3>1, <2>4 DEF HeadTo, SameHead
  <2>11. Framed(f, w, e.framer, n)
    BY <2>1, <2>4, <2>7, <2>9, <1>6 DEF SameButHead
  <2>12. e.enough => y = Len(c)
    <3>1. e.enough => e.framer.closed
      BY <2>4, <2>7, <2>9, <1>6, <1>8 DEF SameButHead
    <3>2. e.framer.closed => OutLen(f, n) = Len(Canonical(f))
      BY <2>11, ClosedAll
    <3> QED BY <3>1, <3>2, <1>1
  <2>13. FedTo(u, f, d, y) => FedTo(u, f, e, y)
    BY <2>9 DEF FedTo, Judged, SameHead
  <2>14. Failed(u, f, d) => Failed(u, f, e)
    BY <2>9 DEF Failed, SomeFlaw, Bounded, SameHead
  <2>15. CASE Failed(u, f, d)
    BY <2>10, <2>14, <2>15, <1>1, <1>9 DEF ReadOn
  <2>16. CASE FedTo(u, f, d, y)
    <3>1. ReadTo(u, f, w, e, n)
      BY <2>9, <2>10, <2>11, <2>13, <2>16, <1>1 DEF ReadTo
    <3> QED BY <3>1, <2>12, <1>1, <1>9 DEF ReadOn
  <2> QED BY <2>7, <2>15, <2>16
<1> QED BY <1>11, <1>12

----------------------------------------------------------------------------
(* The verdict on a form.                                                  *)

(* The verdict on a form, as JudgedRight has it.                           *)
Concluded(u, b, r) ==
  /\ \/ \E w \in MayReadWhole(u.form.lines) : r \in Verdicts(u, w)
     \/ r = "bad_multipart" /\ MayRefusePreamble(u.form.pre)
  /\ r = "complete" =>
       /\ b.stored = u.form.data
       /\ b.whole \in MayReadWhole(u.form.lines)
       /\ Verdicts(u, b.whole) = {"complete"}
       /\ b.line = TypeOf(u.form.lines, b.whole)

(* The result FinalError gives.                                            *)
Outcome(u, b) == IF FinalError(u, b) = "none" THEN "complete" ELSE FinalError(u, b)

(* However the header block was read, it may be read so.                   *)
LEMMA HeadKnown ==
  ASSUME NEW f, WellComposed(f), NEW b, NEW n, HeadTo(f, b, n)
  PROVE  \E w \in MayReadWhole(f.lines) : b.headDone => w = b.headRead
<1>1. PICK k : k = HeadLength(f.lines)
  OBVIOUS
<1>2. k \in Int /\ MaxPartHead \in Nat
  <2>1. PICK h : h = HeadSize(f.lines)
    OBVIOUS
  <2>2. h \in Nat
    BY <2>1, Made
  <2>3. k = h - 4
    BY <2>1, <1>1, HeadLengths
  <2> QED BY <2>2, <2>3, FilePartAssumption
<1>3. /\ TRUE \in MayReadWhole(f.lines) <=> k <= MaxPartHead
      /\ FALSE \in MayReadWhole(f.lines) <=> k + 3 > MaxPartHead
  BY <1>1 DEF MayReadWhole
<1>4. CASE b.headDone
  <2>1. CASE b.headRead
    <3>1. k <= MaxPartHead
      BY <1>1, <1>4, <2>1 DEF HeadTo
    <3>2. b.headRead = TRUE
      BY <2>1 DEF HeadTo
    <3> QED BY <3>1, <3>2, <1>3
  <2>2. CASE ~b.headRead
    <3>1. k + 3 > MaxPartHead
      BY <1>1, <1>4, <2>2 DEF HeadTo
    <3>2. b.headRead = FALSE
      BY <2>2 DEF HeadTo
    <3> QED BY <3>1, <3>2, <1>3
  <2> QED BY <2>1, <2>2
<1>5. CASE ~b.headDone
  <2>1. k <= MaxPartHead \/ k + 3 > MaxPartHead
    BY <1>2
  <2> QED BY <2>1, <1>3, <1>5
<1> QED BY <1>4, <1>5

(* A flaw is an error.                                                     *)
LEMMA FlawsNamed ==
  ASSUME NEW u, NEW whole, NEW error \in Flaws(u, whole)
  PROVE  error # "none" /\ error # "complete"
<1>1. PICK a, b, c, d, e, g :
        /\ a = IF u.form.lines[1] = "O" \/ u.form.then = "other" THEN "unexpected_part" ELSE "none"
        /\ b = IF u.form.lines[1] = "E" THEN "missing_file" ELSE "none"
        /\ c = IF u.form.then = "second" THEN "duplicate_file" ELSE "none"
        /\ d = IF Overhead(u.form) > MaxOverhead THEN "part_headers_too_large" ELSE "none"
        /\ e = TypeError(u.form.lines, whole)
        /\ g = LengthError(u, Len(u.form.data))
  OBVIOUS
<1>2. Flaws(u, whole) = {a, b, c, d, e, g} \ {"none"}
  BY <1>1, Zenon DEF Flaws
<1>3. a # "complete" /\ b # "complete" /\ c # "complete" /\ d # "complete"
  BY <1>1
<1>4. e # "complete"
  BY <1>1 DEF TypeError
<1>5. g # "complete"
  BY <1>1 DEF LengthError
<1> QED BY <1>2, <1>3, <1>4, <1>5

(* What is held against a form names one of its flaws.                     *)
LEMMA EndsFlawed ==
  ASSUME NEW u, NEW f, f = u.form, WellComposed(f), NEW b, NEW n, HeadTo(f, b, n), Failed(u, f, b)
  PROVE  Concluded(u, b, Outcome(u, b))
<1>1. PICK r : r = b.error
  OBVIOUS
<1>2. FinalError(u, b) = r
  <2>1. PICK x, y : x = EndError(u, b) /\ y = VerifyError(u, b)
    OBVIOUS
  <2>2. FirstError(<<r, x, y>>) = IF r # "none" THEN r ELSE IF x # "none" THEN x ELSE y
    BY FirstOfThree
  <2>3. FinalError(u, b) = FirstError(<<r, x, y>>)
    BY <2>1, <1>1 DEF FinalError
  <2>4. r # "none"
    BY <1>1 DEF Failed
  <2> QED BY <2>2, <2>3, <2>4
<1>3. PICK w \in MayReadWhole(f.lines) : b.headDone => w = b.headRead
  BY HeadKnown
<1>4. w \in BOOLEAN
  BY DEF MayReadWhole
<1>5. r \in Flaws(u, w)
  BY <1>1, <1>3, <1>4 DEF Failed, SomeFlaw
<1>6. r # "none" /\ r # "complete"
  BY <1>5, FlawsNamed
<1>7. r \in Verdicts(u, w)
  <2>1. Flaws(u, w) # {}
    BY <1>5
  <2> QED BY <2>1, <1>5 DEF Verdicts
<1>8. Outcome(u, b) = r
  BY <1>2, <1>6 DEF Outcome
<1>9. \E v \in MayReadWhole(u.form.lines) : r \in Verdicts(u, v)
  BY <1>3, <1>7
<1> QED BY <1>6, <1>8, <1>9 DEF Concluded

(* A preamble that is refused may be.                                      *)
LEMMA EndsRefused ==
  ASSUME NEW u, NEW f, f = u.form, NEW b, PreambleRefused(f, b)
  PROVE  Concluded(u, b, Outcome(u, b))
<1>1. PICK r : r = b.error
  OBVIOUS
<1>2. r = "bad_multipart" /\ MayRefusePreamble(f.pre)
  BY <1>1 DEF PreambleRefused
<1>3. FinalError(u, b) = r
  <2>1. PICK x, y : x = EndError(u, b) /\ y = VerifyError(u, b)
    OBVIOUS
  <2>2. FirstError(<<r, x, y>>) = IF r # "none" THEN r ELSE IF x # "none" THEN x ELSE y
    BY FirstOfThree
  <2>3. FinalError(u, b) = FirstError(<<r, x, y>>)
    BY <2>1, <1>1 DEF FinalError
  <2> QED BY <2>2, <2>3, <1>2
<1>4. Outcome(u, b) = r
  BY <1>2, <1>3 DEF Outcome
<1> QED BY <1>2, <1>4 DEF Concluded

(* A form that has been read whole with nothing against it: it is cut off, *)
(* or it has no flaw and is held to what was declared.                     *)
LEMMA WholeRead ==
  ASSUME NEW f, WellComposed(f), NEW n, n = Len(Canonical(f)), FaultAt(f, n) = "none"
  PROVE  /\ n \in Nat /\ n >= HeadSize(f.lines) /\ f.lines[1] # "O"
         /\ f.then = "cut" => ~DoneAt(f, n)
         /\ f.then # "cut" => f.then = "close" /\ DoneAt(f, n) /\ Size(f, n) = Len(f.data)
<1>1. PICK o, h, e, t : o = Len(Open) /\ h = HeadSize(f.lines) /\ e = DataEnd(f) /\ t = AfterData(f)
  OBVIOUS
<1>2. n \in Nat /\ o \in Nat /\ h \in Nat /\ h >= o + 7 /\ n >= e /\ e >= h /\ e \in Nat
  <2>1. PICK d : d = Len(f.data)
    OBVIOUS
  <2>2. n \in Nat /\ o \in Nat /\ h \in Nat /\ h >= o + 7 /\ n >= e /\ e = h + d /\ d \in Nat
    BY <2>1, <1>1, Made
  <2> QED BY <2>2
<1>3. n >= h /\ f.lines[1] # "O"
  <2>1. n >= h /\ n >= o + 5
    BY <1>2
  <2>2. "unexpected_part" # "none"
    OBVIOUS
  <2>3. f.lines[1] # "O"
    BY <2>1, <2>2, <1>1 DEF FaultAt
  <2> QED BY <2>1, <2>3
<1>4. f.then = "cut" => ~DoneAt(f, n)
  BY DEF DoneAt
<1>5. ASSUME f.then # "cut"
      PROVE  f.then = "close" /\ DoneAt(f, n) /\ Size(f, n) = Len(f.data)
  <2>1. PICK c : c = Canonical(f)
    OBVIOUS
  <2>2. TailText(f, c, t)
    BY <2>1, <1>1, <1>5, Tails
  <2>3. f.then = "close"
    <3> SUFFICES ASSUME f.then # "close" PROVE FALSE
      OBVIOUS
    <3>1. f.then \in {"second", "other"}
      BY <1>5, Composed
    <3>2. n > t + 5 /\ t \in Nat
      BY <2>1, <2>2 DEF TailText
    <3>3. n >= t + 5
      BY <3>2, <1>2
    <3>4. FaultAt(f, n) = IF f.then = "second" THEN "duplicate_file" ELSE "unexpected_part"
      BY <3>1, <3>3, <1>1, <1>3 DEF FaultAt
    <3>5. "duplicate_file" # "none" /\ "unexpected_part" # "none"
      OBVIOUS
    <3> QED BY <3>4, <3>5
  <2>4. n = t + 4 /\ t \in Nat
    BY <2>1, <2>2, <2>3 DEF TailText
  <2>5. n >= t + 2 /\ n >= n /\ ~(n < t) /\ ~(n < h)
    BY <2>4, <1>2
  <2>6. DoneAt(f, n)
    BY <2>3, <2>5, <1>1, <1>3, <1>5 DEF DoneAt
  <2>7. Size(f, n) = Len(f.data)
    <3>1. ~(n < h \/ f.lines[1] = "O") /\ ~(f.then = "cut" \/ n < t)
      BY <2>5, <1>3, <1>5
    <3> QED BY <3>1, <1>1 DEF Size
  <2> QED BY <2>3, <2>6, <2>7
<1> QED BY <1>1, <1>2, <1>3, <1>4, <1>5

LEMMA NoFlaws ==
  ASSUME NEW u, NEW f, f = u.form, NEW w, f.lines[1] \notin {"O", "E"}, f.then = "close",
         ~(Overhead(f) > MaxOverhead), TypeError(f.lines, w) = "none", LengthError(u, Len(f.data)) = "none"
  PROVE  Flaws(u, w) = {}
BY DEF Flaws

(* The verdict on a form that is read whole is the right one.              *)
LEMMA EndsWhole ==
  ASSUME NEW u, NEW f, f = u.form, ~u.raw, WellComposed(f), NEW n, n = Len(Canonical(f)),
         NEW b, HeadTo(f, b, n), FedTo(u, f, b, n)
  PROVE  Concluded(u, b, Outcome(u, b))
<1>1. PICK r, x, y, p, w : /\ r = FinalError(u, b) /\ x = EndError(u, b) /\ y = VerifyError(u, b)
                           /\ p = b.parser /\ w = b.headRead
  OBVIOUS
<1>2. b.error = "none" /\ FaultAt(f, n) = "none" /\ p = StateAt(f, n)
  BY <1>1 DEF FedTo
<1>3. /\ n \in Nat /\ n >= HeadSize(f.lines) /\ f.lines[1] # "O"
      /\ f.then = "cut" => ~DoneAt(f, n)
      /\ f.then # "cut" => f.then = "close" /\ DoneAt(f, n) /\ Size(f, n) = Len(f.data)
  BY <1>2, WholeRead
<1>4. r = IF x # "none" THEN x ELSE y
  <2>1. PICK z : z = b.error
    OBVIOUS
  <2>2. FirstError(<<z, x, y>>) = IF z # "none" THEN z ELSE IF x # "none" THEN x ELSE y
    BY FirstOfThree
  <2>3. r = FirstError(<<z, x, y>>)
    BY <2>1, <1>1 DEF FinalError
  <2> QED BY <2>1, <2>2, <2>3, <1>2
<1>5. p.parts # 0 /\ (p.done <=> DoneAt(f, n))
  <2>1. n <= Len(Canonical(f))
    BY <1>3
  <2>2. Told(f, n, p)
    <3>1. Told(f, n, StateAt(f, n))
      BY <2>1, <1>3, Tells
    <3> QED BY <3>1, <1>2
  <2> QED BY <2>2, <1>3 DEF Told
<1>6. w \in MayReadWhole(f.lines)
  <2>1. b.headDone
    <3>1. HeadSize(f.lines) \in Nat
      BY Made
    <3>2. ~(n < HeadSize(f.lines))
      BY <3>1, <1>3
    <3> QED BY <3>2 DEF HeadTo
  <2>2. PICK v \in MayReadWhole(f.lines) : b.headDone => v = b.headRead
    BY HeadKnown
  <2> QED BY <2>1, <2>2, <1>1
<1>7. CASE f.then = "cut"
  <2>1. x = "truncated"
    BY <1>1, <1>3, <1>5, <1>7 DEF EndError
  <2>2. PICK t : t = "truncated" /\ t # "none" /\ t # "complete"
    OBVIOUS
  <2>3. Outcome(u, b) = t
    BY <2>1, <2>2, <1>1, <1>4 DEF Outcome
  <2>4. t \in Verdicts(u, w)
    BY <2>2, <1>7 DEF Verdicts
  <2>5. \E v \in MayReadWhole(u.form.lines) : t \in Verdicts(u, v)
    BY <2>4, <1>6
  <2> QED BY <2>2, <2>3, <2>5 DEF Concluded
<1>8. CASE f.then # "cut"
  <2>1. f.then = "close" /\ DoneAt(f, n) /\ Size(f, n) = Len(f.data)
    BY <1>3, <1>8
  <2>2. x = "none" /\ r = y
    <3>1. x = "none"
      BY <2>1, <1>1, <1>5 DEF EndError
    <3> QED BY <3>1, <1>4
  <2>3. Judged(f, b)
    BY <2>1 DEF FedTo
  <2>4. f.data \in Seq(Symbols) /\ Len(f.data) \in Nat
    BY Composed
  <2>5. b.stored = f.data
    <3>1. SubSeq(f.data, 1, Len(f.data)) = f.data
      BY <2>4
    <3> QED BY <3>1, <2>1 DEF FedTo
  <2>6. LengthError(u, Len(f.data)) = "none"
    <3>1. PICK k : k = Len(f.data)
      OBVIOUS
    <3>2. SizeError(u, k) = "none"
      BY <3>1, <2>1 DEF FedTo
    <3>3. LengthError(u, k) = SizeError(u, k)
      BY DEF LengthError, SizeError
    <3> QED BY <3>1, <3>2, <3>3
  <2>7. ~(Overhead(f) > MaxOverhead)
    <3>1. PICK k, d : k = Overhead(f) /\ d = Len(f.data)
      OBVIOUS
    <3>2. n - d <= MaxOverhead
      BY <3>1, <2>1 DEF FedTo
    <3>3. k = n - d + 0
      BY <3>1, <2>1 DEF Overhead
    <3>4. n \in Nat /\ d \in Nat /\ MaxOverhead \in Nat
      BY <3>1, <1>3, <2>4, FilePartAssumption
    <3>5. k = n - d /\ ~(k > MaxOverhead)
      BY <3>2, <3>3, <3>4
    <3> QED BY <3>1, <3>5
  <2>8. /\ f.lines[1] # "E" /\ b.whole = w /\ b.line = TypeOf(f.lines, w)
        /\ TypeError(f.lines, w) = "none"
    BY <2>3, <1>1 DEF Judged
  <2>9. Flaws(u, w) = {}
    <3>1. f.lines[1] \notin {"O", "E"}
      BY <2>8, <1>3
    <3> QED BY <3>1, <2>1, <2>6, <2>7, <2>8, NoFlaws
  <2>10. Verdicts(u, w) = {DeclaredError(u, f.data)}
    BY <2>9, <1>8 DEF Verdicts
  <2>11. Outcome(u, b) = DeclaredError(u, f.data)
    <3>1. y = IF u.expectedSize # None /\ Len(f.data) # u.expectedSize THEN "size_mismatch"
              ELSE IF u.digest # {} /\ f.data \notin u.digest THEN "digest_mismatch" ELSE "none"
      BY <2>5, <1>1 DEF VerifyError
    <3>2. Outcome(u, b) = IF y = "none" THEN "complete" ELSE y
      BY <2>2, <1>1 DEF Outcome
    <3>3. "size_mismatch" # "none" /\ "digest_mismatch" # "none"
      OBVIOUS
    <3> QED BY <3>1, <3>2, <3>3 DEF DeclaredError
  <2>12. PICK z : z = DeclaredError(u, f.data)
    OBVIOUS
  <2>13. \E v \in MayReadWhole(u.form.lines) : z \in Verdicts(u, v)
    BY <2>10, <2>12, <1>6
  <2>14. z = "complete" =>
           /\ b.stored = u.form.data
           /\ b.whole \in MayReadWhole(u.form.lines)
           /\ Verdicts(u, b.whole) = {"complete"}
           /\ b.line = TypeOf(u.form.lines, b.whole)
    BY <2>5, <2>8, <2>10, <2>12, <1>6
  <2> QED BY <2>11, <2>12, <2>13, <2>14 DEF Concluded
<1> QED BY <1>7, <1>8

----------------------------------------------------------------------------
(* The intake of a form, step by step.                                     *)

(* Every upload that is a form is well composed.                           *)
LEMMA FormOf ==
  ASSUME NEW u \in Uploads, ~u.raw
  PROVE  WellComposed(u.form) /\ FormBytes(u.bytes, u.form)
<1>1. u.bytes = Written(u.form) /\ WellComposed(u.form)
  BY FormsAssumption
<1>2. PICK f : f = u.form
  OBVIOUS
<1>3. WellComposed(f) /\ u.bytes = Written(f)
  BY <1>1, <1>2
<1>4. FormBytes(Written(f), f)
  BY <1>3, Wire
<1> QED BY <1>2, <1>3, <1>4

(* What the parser has seen of a form, however a read went.                *)
SeenRight(f, b) ==
  /\ IsPrefix(b.seen, Canonical(f))
  /\ b.framer.closed /\ b.error = "none" => b.seen = Canonical(f)

LEMMA BeginsText ==
  ASSUME NEW S, NEW s \in Seq(S), NEW k \in Nat, k <= Len(s), NEW t, t = SubSeq(s, 1, k)
  PROVE  IsPrefix(t, s)
<1>1. PICK one : one = 1
  OBVIOUS
<1>2. one \in Nat /\ 1 <= one /\ one <= k + 1 /\ k - one + 1 = k
  BY <1>1
<1>3. t \in Seq(S) /\ Len(t) = k
  <2>1. SubSeq(s, one, k) \in Seq(S) /\ Len(SubSeq(s, one, k)) = k - one + 1
    BY <1>2, Stretch
  <2> QED BY <2>1, <1>1, <1>2
<1>4. SubSeq(t, 1, Len(t)) = t
  BY <1>3
<1>5. Len(t) <= Len(s)
  BY <1>3
<1>6. SubSeq(s, 1, Len(t)) = t
  BY <1>3
<1> QED BY <1>4, <1>5, <1>6, Zenon DEF IsPrefix

(* After every read.                                                       *)
LEMMA OnIsRight ==
  ASSUME NEW u, NEW f, WellComposed(f), NEW w, NEW n \in Nat, NEW b, ReadOn(u, f, w, b, n)
  PROVE  SeenRight(f, b) /\ Bounded(b)
<1>1. PICK c : c = Canonical(f)
  OBVIOUS
<1>2. c \in Seq(Symbols)
  BY <1>1, Made
<1>3. CASE b.error # "none" /\ Bounded(b) /\ \E k \in Nat : k <= Len(Canonical(f)) /\ b.seen = SubSeq(Canonical(f), 1, k)
  <2>1. PICK k \in Nat : k <= Len(c) /\ b.seen = SubSeq(c, 1, k)
    BY <1>1, <1>3
  <2>2. IsPrefix(b.seen, c)
    <3>1. PICK t : t = b.seen
      OBVIOUS
    <3>2. t = SubSeq(c, 1, k)
      BY <3>1, <2>1
    <3> QED BY <3>1, <3>2, <2>1, <1>2, BeginsText
  <2> QED BY <2>1, <2>2, <1>1, <1>3 DEF SeenRight
<1>4. CASE ReadTo(u, f, w, b, n)
  <2>1. PICK k : k = OutLen(f, n)
    OBVIOUS
  <2>2. k \in Nat /\ k <= Len(c)
    <3>1. n <= n
      OBVIOUS
    <3> QED BY <3>1, <2>1, <1>1, OutLens
  <2>3. FedTo(u, f, b, k) /\ Framed(f, w, b.framer, n)
    BY <2>1, <1>4 DEF ReadTo
  <2>4. Bounded(b)
    BY <2>2, <2>3, <1>1, FedBounds
  <2>5. b.seen = SubSeq(c, 1, k)
    BY <2>3, <1>1 DEF FedTo
  <2>6. IsPrefix(b.seen, c)
    <3>1. PICK t : t = b.seen
      OBVIOUS
    <3>2. t = SubSeq(c, 1, k)
      BY <3>1, <2>5
    <3> QED BY <3>1, <3>2, <2>2, <1>2, BeginsText
  <2>7. b.framer.closed => b.seen = c
    <3> SUFFICES ASSUME b.framer.closed PROVE b.seen = c
      OBVIOUS
    <3>1. k = Len(c)
      <4>1. PICK fr : fr = b.framer
        OBVIOUS
      <4>2. Framed(f, w, fr, n) /\ fr.closed
        BY <4>1, <2>3
      <4>3. OutLen(f, n) = Len(Canonical(f))
        BY <4>2, ClosedAll
      <4> QED BY <4>3, <2>1, <1>1
    <3>2. SubSeq(c, 1, Len(c)) = c
      BY <1>2
    <3> QED BY <3>1, <3>2, <2>5
  <2> QED BY <2>4, <2>5, <2>6, <2>7, <1>1 DEF SeenRight
<1> QED BY <1>3, <1>4 DEF ReadOn, PreambleRefused, Failed

(* When all bytes are read, the whole body has been handed on.             *)
LEMMA AllOut ==
  ASSUME NEW f, WellComposed(f), NEW w, FormBytes(w, f)
  PROVE  OutLen(f, Len(w)) = Len(Canonical(f))
<1>1. PICK p, o, e, c, x, at, n, y :
        /\ p = Len(f.pre) /\ o = Len(Open) /\ e = BodyEnd(f) /\ c = Len(Canonical(f)) /\ x = FirstFrom(f)
        /\ at = CloseAt(f) /\ n = Len(w) /\ y = Len(f.epilogue)
  OBVIOUS
<1>2. p \in Nat /\ o \in Nat /\ x = p + o /\ e \in Nat /\ e > o + 4 /\ e <= c /\ c \in Nat /\ y \in Nat
  <2>1. f.pre \in Seq(Symbols) /\ f.epilogue \in Seq(Symbols)
    BY Composed
  <2>2. p \in Nat /\ y \in Nat
    BY <2>1, <1>1
  <2>3. o \in Nat /\ x = p + o
    BY <1>1, Marks DEF FirstFrom
  <2>4. e \in Nat /\ e > o + 4 /\ e <= c
    BY <1>1, Bodies
  <2>5. c \in Nat
    BY <1>1, Made
  <2> QED BY <2>2, <2>3, <2>4, <2>5
<1>3. n = p + e + y
  BY <1>1 DEF FormBytes
<1>4. OutLen(f, n) = IF n < x THEN 0 ELSE IF n - p < at THEN n - p ELSE c
  BY <1>1 DEF OutLen
<1>5. CASE f.then = "cut"
  <2>1. f.epilogue = <<>>
    BY <1>5 DEF WellComposed
  <2>2. y = 0
    BY <2>1, <1>1
  <2>3. e = c /\ at = c + 1
    BY <1>1, <1>5 DEF BodyEnd, CloseAt
  <2>4. OutLen(f, n) = c
    BY <2>2, <2>3, <1>2, <1>3, <1>4
  <2> QED BY <2>4, <1>1
<1>6. CASE f.then # "cut"
  <2>1. at = e
    BY <1>1, <1>6 DEF CloseAt
  <2>2. OutLen(f, n) = c
    BY <2>1, <1>2, <1>3, <1>4
  <2> QED BY <2>2, <1>1
<1> QED BY <1>5, <1>6

(* How a read ends an upload, if it does.                                  *)
LEMMA OnConcludes ==
  ASSUME NEW u, NEW f, f = u.form, ~u.raw, WellComposed(f), NEW w, NEW n \in Nat, NEW b, ReadOn(u, f, w, b, n)
  PROVE  /\ b.error # "none" \/ b.enough => Concluded(u, b, Outcome(u, b))
         /\ ~(b.error # "none" \/ b.enough) => ReadTo(u, f, w, b, n)
<1>1. CASE PreambleRefused(f, b)
  <2>1. Concluded(u, b, Outcome(u, b))
    BY <1>1, EndsRefused
  <2>2. b.error # "none"
    BY <1>1 DEF PreambleRefused
  <2> QED BY <2>1, <2>2
<1>2. CASE HeadTo(f, b, OutLen(f, n)) /\ Failed(u, f, b)
  <2>1. PICK k : k = OutLen(f, n)
    OBVIOUS
  <2>2. HeadTo(f, b, k) /\ Failed(u, f, b)
    BY <2>1, <1>2
  <2>3. Concluded(u, b, Outcome(u, b))
    BY <2>2, EndsFlawed
  <2>4. b.error # "none"
    BY <1>2 DEF Failed
  <2> QED BY <2>3, <2>4
<1>3. CASE ReadTo(u, f, w, b, n) /\ (b.enough => OutLen(f, n) = Len(Canonical(f)))
  <2>1. b.error = "none"
    BY <1>3 DEF ReadTo, FedTo
  <2>2. ASSUME b.enough PROVE Concluded(u, b, Outcome(u, b))
    <3>1. PICK k : k = Len(Canonical(f))
      OBVIOUS
    <3>2. OutLen(f, n) = k
      BY <3>1, <1>3, <2>2
    <3>3. HeadTo(f, b, k) /\ FedTo(u, f, b, k)
      BY <3>2, <1>3 DEF ReadTo
    <3> QED BY <3>1, <3>3, EndsWhole
  <2> QED BY <2>1, <2>2, <1>3
<1> QED BY <1>1, <1>2, <1>3 DEF ReadOn

(* Before the first read.                                                  *)
LEMMA BeginsFed ==
  ASSUME NEW u \in Uploads, NEW f, WellComposed(f), NEW b, b = NewBody
  PROVE  FedTo(u, f, b, 0)
<1>1. /\ b.error = "none" /\ b.parser = NewParser /\ b.fed = 0 /\ b.seen = <<>> /\ b.stored = <<>>
      /\ ~b.announced
  BY DEF NewBody
<1>2. NewParser = StateAt(f, 0)
  BY Starts
<1>3. PICK o, h, t, c : o = Len(Open) /\ h = HeadSize(f.lines) /\ t = AfterData(f) /\ c = Canonical(f)
  OBVIOUS
<1>4. o \in Nat /\ h \in Nat /\ h > 0 /\ t \in Nat /\ c \in Seq(Symbols)
  <2>1. PICK e, q : e = DataEnd(f) /\ q = Len(Delimiter)
    OBVIOUS
  <2>2. o \in Nat /\ h \in Nat /\ h >= o + 7 /\ e \in Nat /\ q = o + 2 /\ c \in Seq(Symbols)
    BY <2>1, <1>3, Made
  <2>3. t = e + q
    BY <2>1, <1>3 DEF AfterData
  <2> QED BY <2>2, <2>3
<1>5. 0 < h /\ ~(0 >= o + 5) /\ ~(0 >= t + 5) /\ ~(0 >= t + 2)
  BY <1>4
<1>6. Size(f, 0) = 0
  BY <1>3, <1>5 DEF Size
<1>7. FaultAt(f, 0) = "none"
  BY <1>3, <1>5 DEF FaultAt
<1>8. ~DoneAt(f, 0)
  BY <1>3, <1>5 DEF DoneAt
<1>9. SubSeq(c, 1, 0) = <<>> /\ SubSeq(f.data, 1, 0) = <<>>
  <2>1. f.data \in Seq(Symbols)
    BY Composed
  <2> QED BY <2>1, <1>4
<1>10. SizeError(u, 0) = "none"
  BY Limits DEF SizeError, None
<1>11. ~(Size(f, 0) > 0) /\ 0 - Size(f, 0) <= MaxOverhead
  BY <1>6, FilePartAssumption
<1>12. b.announced <=> Size(f, 0) > 0 \/ DoneAt(f, 0)
  BY <1>1, <1>8, <1>11
<1>13. b.announced => Judged(f, b)
  BY <1>1
<1>14. b.parser = StateAt(f, 0) /\ b.seen = SubSeq(Canonical(f), 1, 0) /\ b.stored = SubSeq(f.data, 1, Size(f, 0))
  BY <1>1, <1>2, <1>3, <1>6, <1>9
<1> QED BY <1>1, <1>6, <1>7, <1>10, <1>11, <1>12, <1>13, <1>14, Zenon DEF FedTo

LEMMA Begins ==
  ASSUME NEW u \in Uploads, NEW f, WellComposed(f), NEW w, FormBytes(w, f), NEW b, b = NewBody
  PROVE  ReadTo(u, f, w, b, 0)
<1>1. PICK x, h, c : x = FirstFrom(f) /\ h = HeadSize(f.lines) /\ c = Canonical(f)
  OBVIOUS
<1>2. x \in Nat /\ x > 0 /\ h \in Nat /\ h > 0 /\ c \in Seq(Symbols) /\ w \in Seq(Symbols)
  <2>1. f.pre \in Seq(Symbols)
    BY Composed
  <2>2. PICK p, o : p = Len(f.pre) /\ o = Len(Open)
    OBVIOUS
  <2>3. p \in Nat /\ o \in Nat /\ o >= 2 /\ x = p + o
    BY <2>1, <2>2, <1>1, Marks DEF FirstFrom
  <2>4. h \in Nat /\ h >= o + 7 /\ c \in Seq(Symbols)
    BY <2>2, <1>1, Made
  <2>5. w \in Seq(Symbols)
    BY DEF FormBytes
  <2> QED BY <2>3, <2>4, <2>5
<1>3. OutLen(f, 0) = 0
  BY <1>1, <1>2 DEF OutLen
<1>4. IsBody(b)
  BY DEF NewBody, IsBody, HeadFields, OtherFields
<1>5. Framed(f, w, b.framer, 0)
  <2>1. b.framer = NewFramer
    BY DEF NewBody
  <2>2. NewFramer = Framing(<<>>, <<>>, FALSE, FALSE, 0)
    BY Zenon DEF NewFramer, Framing, FramerOf
  <2>3. SubSeq(w, 1, 0) = <<>>
    BY <1>2
  <2>4. 0 < FirstFrom(f)
    BY <1>1, <1>2
  <2> QED BY <2>1, <2>2, <2>3, <2>4 DEF Framed
<1>6. HeadTo(f, b, 0)
  <2>1. /\ b.headRead = FALSE /\ b.headDone = FALSE /\ b.head = <<>>
    BY DEF NewBody
  <2>2. SubSeq(c, 1, 0) = <<>> /\ 0 <= MaxPartHead /\ 0 < h
    BY <1>2, FilePartAssumption
  <2> QED BY <2>1, <2>2, <1>1 DEF HeadTo
<1>7. FedTo(u, f, b, 0)
  BY BeginsFed
<1> QED BY <1>3, <1>4, <1>5, <1>6, <1>7 DEF ReadTo

(* A form being read: what is unread is the rest of its bytes, and the     *)
(* body is what reading the others makes of it.  A raw body is never       *)
(* handed to the parser.                                                   *)
FormSoFar ==
  ~up.raw => \E k \in Nat : /\ k <= Len(up.bytes) /\ unread = SubSeq(up.bytes, k + 1, Len(up.bytes))
                            /\ ReadTo(up, up.form, up.bytes, body, k)
RawKept ==
  up.raw => {"fed", "error", "stored"} \subseteq DOMAIN body /\ body.fed = 0 /\ body.stored \in Seq(STRING)
FormIInv == (Pumping => FormSoFar) /\ RawKept /\ ReadRight

LEMMA RawIsBounded ==
  ASSUME up.raw, RawKept
  PROVE  FedBounded
<1>1. body.fed = 0 /\ Len(body.stored) \in Nat
  BY DEF RawKept
<1> QED BY <1>1, FilePartAssumption DEF FedBounded

LEMMA FormIInvInit == Init => FormIInv
<1> SUFFICES ASSUME Init PROVE FormIInv
  OBVIOUS
<1>1. up \in Uploads /\ up.raw \in BOOLEAN /\ unread = up.bytes /\ up.bytes \in Seq(STRING)
      /\ body = NewBody /\ pump = "waiting"
  BY Limits DEF Init
<1>2. JudgedRight
  BY <1>1 DEF JudgedRight
<1>3. RawKept
  <2>1. {"fed", "error", "stored"} \subseteq DOMAIN NewBody /\ NewBody.fed = 0 /\ NewBody.stored = <<>>
    BY DEF NewBody
  <2>2. <<>> \in Seq(STRING)
    OBVIOUS
  <2> QED BY <2>1, <2>2, <1>1 DEF RawKept
<1>4. CASE up.raw
  BY <1>2, <1>3, <1>4, RawIsBounded DEF FormIInv, FormSoFar, ReadRight, FedInOrder
<1>5. CASE ~up.raw
  <2>1. PICK f, w, b : f = up.form /\ w = up.bytes /\ b = body
    OBVIOUS
  <2>2. WellComposed(f) /\ FormBytes(w, f)
    BY <2>1, <1>1, <1>5, FormOf
  <2>3. ReadTo(up, f, w, b, 0)
    <3>1. b = NewBody
      BY <2>1, <1>1
    <3> QED BY <3>1, <2>2, <1>1, Begins
  <2>4. unread = SubSeq(w, 0 + 1, Len(w)) /\ 0 <= Len(w)
    <3>1. w \in Seq(STRING) /\ unread = w
      BY <2>1, <1>1
    <3> QED BY <3>1
  <2>5. FormSoFar
    BY <2>1, <2>3, <2>4 DEF FormSoFar
  <2>6. SeenRight(f, b) /\ Bounded(b)
    <3>1. OutLen(f, 0) = Len(Canonical(f)) => TRUE
      OBVIOUS
    <3>2. b.enough = FALSE
      BY <2>1, <1>1 DEF NewBody
    <3>3. ReadOn(up, f, w, b, 0)
      BY <3>2, <2>3 DEF ReadOn
    <3> QED BY <3>3, <2>2, OnIsRight
  <2>7. FedInOrder /\ FedBounded
    BY <2>1, <2>6 DEF SeenRight, Bounded, FedInOrder, FedBounded
  <2> QED BY <2>5, <2>7, <1>2, <1>3 DEF FormIInv, ReadRight
<1> QED BY <1>1, <1>4, <1>5

(* A read of a form, and one of a raw body.                                *)
LEMMA ReadIsForm ==
  ASSUME IInv, FormIInv, NEW n \in 1..Len(unread), Read(n), ~up.raw
  PROVE  FormIInv'
<1>1. PICK u, f, w, b, chunk, d :
        /\ u = up /\ f = up.form /\ w = up.bytes /\ b = body /\ chunk = SubSeq(unread, 1, n)
        /\ d = FormFeed(up, body, chunk)
  OBVIOUS
<1>2. u \in Uploads /\ pump = "waiting" /\ w \in Seq(STRING) /\ f = u.form /\ ~u.raw
  BY <1>1, Limits DEF Read, IInv, Control
<1>3. WellComposed(f) /\ FormBytes(w, f)
  BY <1>1, <1>2, FormOf
<1>4. PICK k \in Nat : k <= Len(w) /\ unread = SubSeq(w, k + 1, Len(w)) /\ ReadTo(u, f, w, b, k)
  BY <1>1, <1>2 DEF FormIInv, FormSoFar, Pumping
<1>5. PICK m, l, i, one : m = k + n /\ l = Len(w) /\ i = k + 1 /\ one = 1
  OBVIOUS
<1>6. /\ l \in Nat /\ n \in Nat /\ n >= 1 /\ n <= l - k /\ m \in Nat /\ k <= m /\ m <= l
      /\ Len(unread) = l - k
  <2>0. l \in Nat /\ k \in Nat /\ k <= l /\ i = k + 1 /\ l <= Len(w)
    BY <1>2, <1>4, <1>5
  <2>1. l \in Nat /\ i \in Nat /\ 1 <= i /\ i <= l + 1 /\ l <= Len(w) /\ l - i + 1 = l - k /\ k <= l
    BY <2>0
  <2>2. Len(SubSeq(w, i, l)) = l - i + 1
    BY <2>1, <1>2, Stretch
  <2>5. unread = SubSeq(w, i, l)
    BY <1>4, <1>5
  <2>3. Len(unread) = l - k
    BY <2>1, <2>2, <2>5
  <2>4. n \in Nat /\ n >= 1 /\ n <= l - k
    BY <2>1, <2>3
  <2> QED BY <2>1, <2>3, <2>4, <1>5
<1>7. chunk = SubSeq(w, k + 1, m)
  <2>1. /\ i \in Nat /\ 1 <= i /\ i <= l + 1 /\ l <= Len(w) /\ one \in Nat /\ 1 <= one /\ one <= n + 1
        /\ n <= l - i + 1 /\ i + one - 1 = k + 1 /\ i + n - 1 = m
    BY <1>5, <1>6
  <2>2. SubSeq(SubSeq(w, i, l), one, n) = SubSeq(w, i + one - 1, i + n - 1)
    BY <2>1, <1>2, <1>6, StretchWithin
  <2> QED BY <2>1, <2>2, <1>1, <1>4, <1>5
<1>8. From(unread, n + 1) = SubSeq(w, m + 1, l)
  <2>1. PICK a, z : a = n + 1 /\ z = l - k
    OBVIOUS
  <2>2. /\ i \in Nat /\ 1 <= i /\ i <= l + 1 /\ l <= Len(w) /\ a \in Nat /\ z \in Nat /\ 1 <= a /\ a <= z + 1
        /\ z <= l - i + 1 /\ i + a - 1 = m + 1 /\ i + z - 1 = l
    BY <2>1, <1>5, <1>6
  <2>3. SubSeq(SubSeq(w, i, l), a, z) = SubSeq(w, i + a - 1, i + z - 1)
    BY <2>2, <1>2, <1>6, StretchWithin
  <2>4. From(unread, a) = SubSeq(SubSeq(w, i, l), a, z)
    BY <2>1, <1>4, <1>5, <1>6 DEF From
  <2> QED BY <2>1, <2>2, <2>3, <2>4
<1>9. ReadOn(u, f, w, d, m)
  <2>1. m <= Len(w)
    BY <1>5, <1>6
  <2>2. ReadOn(u, f, w, FormFeed(u, b, SubSeq(w, k + 1, m)), m)
    BY <2>1, <1>2, <1>3, <1>4, <1>6, FormFeeds
  <2> QED BY <2>2, <1>1, <1>7
<1>10. SeenRight(f, d) /\ Bounded(d)
  BY <1>3, <1>6, <1>9, OnIsRight
<1>11. /\ d.error # "none" \/ d.enough => Concluded(u, d, Outcome(u, d))
       /\ ~(d.error # "none" \/ d.enough) => ReadTo(u, f, w, d, m)
  BY <1>2, <1>3, <1>6, <1>9, OnConcludes
<1>12. /\ up' = up /\ body' = d /\ unread' = From(unread, n + 1)
       /\ pump' = "over" => (d.error # "none" \/ d.enough) /\ result' = Outcome(u, d)
       /\ Pumping' => ~(d.error # "none" \/ d.enough)
  BY <1>1 DEF Read, End, Pumping, Outcome
<1>13. FedInOrder' /\ FedBounded'
  BY <1>1, <1>10, <1>12 DEF FedInOrder, FedBounded, SeenRight, Bounded
<1>14. JudgedRight'
  <2> SUFFICES ASSUME pump' = "over" PROVE JudgedRight'
    BY DEF JudgedRight
  <2>1. Concluded(u, d, result')
    BY <1>11, <1>12
  <2> QED BY <2>1, <1>1, <1>12 DEF JudgedRight, Concluded
<1>15. (Pumping => FormSoFar)'
  <2> SUFFICES ASSUME Pumping' PROVE FormSoFar'
    OBVIOUS
  <2>1. ReadTo(u, f, w, d, m) /\ m <= Len(w) /\ unread' = SubSeq(w, m + 1, Len(w))
    BY <1>5, <1>6, <1>8, <1>11, <1>12
  <2> QED BY <2>1, <1>1, <1>6, <1>12 DEF FormSoFar
<1>16. RawKept'
  BY <1>12 DEF RawKept
<1> QED BY <1>13, <1>14, <1>15, <1>16 DEF FormIInv, ReadRight

LEMMA ReadKeepsRaw ==
  ASSUME IInv, FormIInv, NEW n \in 1..Len(unread), Read(n), up.raw
  PROVE  FormIInv'
<1>1. PICK chunk, refused, stored :
        /\ chunk = SubSeq(unread, 1, n) /\ refused = SizeError(up, Len(body.stored) + Len(chunk))
        /\ stored = IF refused = "none" THEN body.stored \o chunk ELSE body.stored
  OBVIOUS
<1>2. chunk \in Seq(STRING)
  BY <1>1, CutInTwo DEF IInv, Control
<1>3. up' = up /\ body' = [body EXCEPT !.error = refused, !.stored = stored]
  BY <1>1 DEF Read, RawFeed
<1>4. {"fed", "error", "stored"} \subseteq DOMAIN body /\ body.fed = 0 /\ body.stored \in Seq(STRING)
  BY DEF FormIInv, RawKept
<1>5. {"fed", "error", "stored"} \subseteq DOMAIN body' /\ body'.fed = 0 /\ body'.stored = stored
  BY <1>3, <1>4
<1>6. stored \in Seq(STRING)
  <2>1. PICK old : old = body.stored
    OBVIOUS
  <2>2. old \in Seq(STRING) /\ old \o chunk \in Seq(STRING)
    <3>1. old \in Seq(STRING)
      BY <2>1, <1>4
    <3> QED BY <3>1, <1>2
  <2> QED BY <2>1, <2>2, <1>1
<1>7. RawKept'
  BY <1>5, <1>6 DEF RawKept
<1>8. FedBounded'
  <2>1. Len(body'.stored) \in Nat
    BY <1>5, <1>6
  <2> QED BY <2>1, <1>5, FilePartAssumption DEF FedBounded
<1>9. FormSoFar' /\ FedInOrder' /\ JudgedRight'
  BY <1>3 DEF FormSoFar, FedInOrder, JudgedRight
<1> QED BY <1>7, <1>8, <1>9 DEF FormIInv, ReadRight

(* The body is over: all of the form was read.                             *)
LEMMA OverIsForm ==
  ASSUME IInv, FormIInv, BodyOver, ~up.raw
  PROVE  FormIInv'
<1>1. PICK u, f, w, b : u = up /\ f = up.form /\ w = up.bytes /\ b = body
  OBVIOUS
<1>2. u \in Uploads /\ pump = "waiting" /\ w \in Seq(STRING) /\ f = u.form /\ ~u.raw /\ unread = <<>>
  BY <1>1, Limits DEF BodyOver, IInv, Control
<1>3. WellComposed(f) /\ FormBytes(w, f)
  BY <1>1, <1>2, FormOf
<1>4. PICK k \in Nat : k <= Len(w) /\ unread = SubSeq(w, k + 1, Len(w)) /\ ReadTo(u, f, w, b, k)
  BY <1>1, <1>2 DEF FormIInv, FormSoFar, Pumping
<1>5. k = Len(w)
  <2>1. PICK i, l : i = k + 1 /\ l = Len(w)
    OBVIOUS
  <2>2. l \in Nat /\ i \in Nat /\ 1 <= i /\ i <= l + 1 /\ l <= Len(w) /\ l - i + 1 = l - k
    BY <2>1, <1>2, <1>4
  <2>3. Len(SubSeq(w, i, l)) = l - i + 1
    BY <2>2, <1>2, Stretch
  <2>4. l - k = 0
    <3>1. Len(<<>>) = 0 /\ SubSeq(w, i, l) = <<>>
      BY <2>1, <1>2, <1>4
    <3> QED BY <3>1, <2>2, <2>3
  <2> QED BY <2>1, <2>2, <2>4
<1>6. PICK c : c = Len(Canonical(f))
  OBVIOUS
<1>7. HeadTo(f, b, c) /\ FedTo(u, f, b, c)
  <2>1. OutLen(f, Len(w)) = Len(Canonical(f))
    BY <1>3, AllOut
  <2> QED BY <2>1, <1>4, <1>5, <1>6 DEF ReadTo
<1>8. Concluded(u, b, Outcome(u, b))
  BY <1>2, <1>3, <1>6, <1>7, EndsWhole
<1>9. up' = up /\ body' = body /\ unread' = unread /\ result' = Outcome(u, b) /\ pump' = "over"
  BY <1>1 DEF BodyOver, End, Outcome
<1>10. JudgedRight'
  BY <1>1, <1>8, <1>9 DEF JudgedRight, Concluded
<1>11. FedInOrder' /\ FedBounded' /\ RawKept'
  BY <1>9 DEF FormIInv, ReadRight, FedInOrder, FedBounded, RawKept
<1> QED BY <1>9, <1>10, <1>11 DEF FormIInv, ReadRight, Pumping

(* Every step.                                                             *)
LEMMA FormIInvStep == IInv /\ FormIInv /\ [Next]_vars => FormIInv'
<1> SUFFICES ASSUME IInv, FormIInv, [Next]_vars PROVE FormIInv'
  OBVIOUS
<1>0. ASSUME up' = up, body' = body, unread' = unread, Pumping' => Pumping,
             pump' = "over" => (pump = "over" /\ result' = result) \/ result' = "client_disconnected" \/ up.raw
      PROVE  FormIInv'
  <2>1. (Pumping => FormSoFar)'
    BY <1>0 DEF FormIInv, FormSoFar
  <2>2. FedInOrder' /\ FedBounded' /\ RawKept'
    BY <1>0 DEF FormIInv, ReadRight, FedInOrder, FedBounded, RawKept
  <2>3. JudgedRight'
    BY <1>0 DEF FormIInv, ReadRight, JudgedRight
  <2> QED BY <2>1, <2>2, <2>3 DEF FormIInv, ReadRight
<1>1. ASSUME NEW n \in 1..Len(unread), Read(n) PROVE FormIInv'
  BY <1>1, ReadIsForm, ReadKeepsRaw
<1>2. ASSUME BodyOver PROVE FormIInv'
  <2>1. CASE up.raw
    <3>1. up' = up /\ body' = body /\ unread' = unread /\ pump' = "over"
      BY <1>2 DEF BodyOver, End
    <3> QED BY <3>1, <2>1, <1>0 DEF Pumping
  <2> QED BY <2>1, <1>2, OverIsForm
<1>3. ASSUME Disconnect PROVE FormIInv'
  <2>1. up' = up /\ body' = body /\ unread' = unread /\ pump' = "over" /\ result' = "client_disconnected"
    BY <1>3 DEF Disconnect, End
  <2> QED BY <2>1, <1>0 DEF Pumping
<1>4. ASSUME PutDone PROVE FormIInv'
  <2>1. up' = up /\ body' = body /\ unread' = unread /\ pump = "putting" /\ pump' = "waiting"
    BY <1>4 DEF PutDone
  <2> QED BY <2>1, <1>0 DEF Pumping
<1>5. ASSUME Watch PROVE FormIInv'
  <2>1. up' = up /\ body' = body /\ unread' = unread /\ Pumping /\ pump' # "over"
    BY <1>5 DEF Watch, Cancel, Pumping
  <2> QED BY <2>1, <1>0
<1>6. ASSUME Tick PROVE FormIInv'
  <2>1. up' = up /\ body' = body /\ unread' = unread /\ Pumping /\ pump' = pump /\ result' = result
    BY <1>6 DEF Tick
  <2> QED BY <2>1, <1>0
<1>7. ASSUME UNCHANGED vars PROVE FormIInv'
  <2>1. up' = up /\ body' = body /\ unread' = unread /\ pump' = pump /\ result' = result
    BY <1>7 DEF vars
  <2> QED BY <2>1, <1>0 DEF Pumping
<1> QED BY <1>1, <1>2, <1>3, <1>4, <1>5, <1>6, <1>7 DEF Next

(* However a form is cut into reads, the parser is handed what stands      *)
(* between its first delimiter and its close delimiter, once and in order  *)
(* (Framer.feed), never more than a slice past the overhead cap            *)
(* (_MultipartBody.feed); it is refused for a flaw of its own, and when it *)
(* is complete, what is stored is the data sent, of the size and digest    *)
(* declared, with the type its part's header block says (_read_head,       *)
(* _FileTarget).                                                           *)
THEOREM BodiesAreReadRight == Spec => []ReadRight
<1>1. Init => IInv /\ FormIInv
  BY IInvInit, FormIInvInit
<1>2. (IInv /\ FormIInv) /\ [Next]_vars => (IInv /\ FormIInv)'
  BY IInvStep, FormIInvStep
<1>3. IInv /\ FormIInv => ReadRight
  BY DEF FormIInv
<1> QED BY <1>1, <1>2, <1>3, PTL DEF Spec
==============================================================================
