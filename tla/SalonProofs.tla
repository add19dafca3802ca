---------------------------- MODULE SalonProofs -----------------------------
(***************************************************************************)
(* Artists, hours and offers for every number of rows and threads: what a  *)
(* deletion leaves behind, what an undisturbed replacement stores, which   *)
(* hours a reader computes, and the register of weeks they implement.      *)
(***************************************************************************)
EXTENDS Salon, TLAPS

Rows == /\ resources \subseteq Resources
        /\ services \subseteq Services
        /\ offers \subseteq Resources \X Services
        /\ hours \in [Resources -> [Days -> Hours \cup {Off}]]
        /\ overrides \in [Resources -> [Dates -> {{}} \cup {{o} : o \in Override}]]
        /\ torn \subseteq Resources

Seen == [answers : SUBSET Override, changed : SUBSET {"exception", "week"}]

WeekJob == [step : {"clearWeek", "insertDay"}, res : Resources,
            asked : WeekBodies, done : Nat, alone : BOOLEAN]
OfferJob == [step : {"clearOffers", "insertOffer"}, res : Resources,
             asked : OfferBodies, done : Nat, alone : BOOLEAN]
LookUp == [step : {"readOverride", "readWeek"}, res : Resources, date : Dates]
Found == [step : {"effective"}, res : Resources, date : Dates, answer : Override]

Reading == {"readOverride", "readWeek", "effective"}

\* A replacement of the week has gone through some of its entries; while it is
\* undisturbed its resource is torn, and the rows are those of the entries.
WeekOK(j) ==
    /\ j.step \in {"clearWeek", "insertDay"} => j.done <= Len(j.asked)
    /\ j.step = "clearWeek" => j.done = 0
    /\ j.step = "insertDay" =>
          /\ j.res \in torn \/ j.res \notin resources
          /\ j.alone => /\ j.res \in torn
                        /\ hours[j.res] = Stored(j.asked, j.done)

OfferOK(j) ==
    /\ j.step \in {"clearOffers", "insertOffer"} => j.done <= Len(j.asked)
    /\ j.step = "clearOffers" => j.done = 0
    /\ j.step = "insertOffer" /\ j.alone =>
          {s \in Services : <<j.res, s>> \in offers} =
              {j.asked[i] : i \in 1..j.done} \cap services

\* Of two replacements that insert for the same resource neither is alone.
Apart ==
    \A v, w \in Workers :
        /\ v # w
        /\ job[v].step = job[w].step
        /\ job[v].step \in {"insertDay", "insertOffer"}
        /\ job[v].res = job[w].res
        => ~ job[v].alone

Jobs == /\ job \in [Workers -> Job]
        /\ \A w \in Workers : WeekOK(job[w]) /\ OfferOK(job[w])
        /\ Apart

IInv == Rows /\ NoOrphans /\ Jobs

-----------------------------------------------------------------------------
LEMMA JobShape ==
    ASSUME NEW j \in Job
    PROVE  /\ j.step \in {"clearWeek", "insertDay"} <=> j \in WeekJob
           /\ j.step \in {"clearOffers", "insertOffer"} <=> j \in OfferJob
           /\ j.step \in {"readOverride", "readWeek"} <=> j \in LookUp
           /\ j.step = "effective" <=> j \in Found
           /\ j.step = "idle" <=> j = Idle
           /\ "alone" \in DOMAIN j <=> j \in WeekJob \cup OfferJob
  <1>1. j \in [step : {"idle"}] => j = Idle
    BY DEF Idle
  <1>2. Job = [step : {"idle"}] \cup WeekJob \cup OfferJob \cup LookUp \cup Found
    BY DEF Job, WeekJob, OfferJob, LookUp, Found
  <1>3. Idle.step = "idle" /\ "alone" \notin DOMAIN Idle
    BY DEF Idle
  <1>4. CASE j \in [step : {"idle"}]
    BY <1>1, <1>3, <1>4 DEF WeekJob, OfferJob, LookUp, Found
  <1>5. CASE j \in WeekJob
    BY <1>5, <1>3 DEF WeekJob, OfferJob, LookUp, Found
  <1>6. CASE j \in OfferJob
    BY <1>6, <1>3 DEF WeekJob, OfferJob, LookUp, Found
  <1>7. CASE j \in LookUp
    BY <1>7, <1>3 DEF WeekJob, OfferJob, LookUp, Found
  <1>8. CASE j \in Found
    BY <1>8, <1>3 DEF WeekJob, OfferJob, LookUp, Found
  <1> QED
    BY <1>2, <1>4, <1>5, <1>6, <1>7, <1>8

LEMMA IdleJob == Idle \in Job /\ Idle.step = "idle"
  BY DEF Idle, Job

LEMMA IdleOK == WeekOK(Idle) /\ OfferOK(Idle)
  BY IdleJob DEF WeekOK, OfferOK

LEMMA InitIInv == Init => IInv
  <1> SUFFICES ASSUME Init PROVE IInv
    OBVIOUS
  <1>1. \A w \in Workers : job[w] = Idle
    BY DEF Init
  <1>2. Rows /\ NoOrphans
    BY DEF Init, Rows, NoOrphans, EmptyWeek
  <1>3. Jobs
    BY <1>1, IdleJob, IdleOK DEF Init, Jobs, Apart
  <1> QED
    BY <1>2, <1>3 DEF IInv

-----------------------------------------------------------------------------
(* Storing the entries of a body one after the other.                      *)

LEMMA NothingStored ==
    ASSUME NEW body
    PROVE  Stored(body, 0) = EmptyWeek
  BY DEF Stored, EmptyWeek

LEMMA StoredSkips ==
    ASSUME NEW body \in WeekBodies, NEW n \in Nat, n < Len(body),
           ~ body[n + 1].working
    PROVE  Stored(body, n + 1) = Stored(body, n)
  <1> DEFINE rows(d, m) == {i \in 1..m : body[i].working /\ body[i].day = d}
             H(S) == IF S = {} THEN Off ELSE body[CHOOSE i \in S : TRUE].h
  <1>1. \A d \in Days : rows(d, n + 1) = rows(d, n)
    <2>1. 1..(n + 1) = (1..n) \cup {n + 1}
      OBVIOUS
    <2> QED
      BY <2>1
  <1>2. \A m : Stored(body, m) = [d \in Days |-> H(rows(d, m))]
    BY DEF Stored
  <1> HIDE DEF rows, H
  <1> QED
    BY <1>1, <1>2

LEMMA StoredGrows ==
    ASSUME NEW body \in WeekBodies, NEW n \in Nat, n < Len(body),
           body[n + 1].working, Stored(body, n)[body[n + 1].day] = Off
    PROVE  Stored(body, n + 1)
             = [Stored(body, n) EXCEPT ![body[n + 1].day] = body[n + 1].h]
  <1> DEFINE rows(d, m) == {i \in 1..m : body[i].working /\ body[i].day = d}
             H(S) == IF S = {} THEN Off ELSE body[CHOOSE i \in S : TRUE].h
             e == body[n + 1]
  <1>1. \A i \in 1..(n + 1) : body[i] \in Entry
    <2>1. body \in Seq(Entry) /\ Len(body) \in Nat
      BY SalonAssumption
    <2>2. 1..(n + 1) \subseteq 1..Len(body)
      BY <2>1
    <2> HIDE DEF e
    <2> QED
      BY <2>1, <2>2
  <1>2. e.day \in Days /\ e \in Entry
    BY <1>1 DEF Entry
  <1>3. \A d \in Days : d # e.day => rows(d, n + 1) = rows(d, n)
    <2>1. 1..(n + 1) = (1..n) \cup {n + 1}
      OBVIOUS
    <2> QED
      BY <2>1
  <1>4. rows(e.day, n) = {}
    <2>1. SUFFICES ASSUME rows(e.day, n) # {} PROVE FALSE
      OBVIOUS
    <2> DEFINE i == CHOOSE k \in rows(e.day, n) : TRUE
    <2>2. i \in rows(e.day, n)
      BY <2>1
    <2>3. body[i].h \in Hours
      BY <1>1, <2>2 DEF Entry
    <2>4. Stored(body, n)[e.day] = body[i].h
      BY <1>2, <2>1 DEF Stored
    <2> QED
      BY <2>3, <2>4, SalonAssumption
  <1>5. rows(e.day, n + 1) = {n + 1}
    BY <1>4
  <1>6. H(rows(e.day, n + 1)) = e.h
    <2>1. (CHOOSE k \in {n + 1} : TRUE) = n + 1
      OBVIOUS
    <2> HIDE DEF rows, e
    <2>2. H({n + 1}) = e.h
      BY <2>1 DEF e
    <2> QED
      BY <1>5, <2>2
  <1>7. \A m : Stored(body, m) = [d \in Days |-> H(rows(d, m))]
    BY DEF Stored
  <1> HIDE DEF rows, H, e
  <1>8. \A d \in Days : H(rows(d, n + 1)) = IF d = e.day THEN e.h ELSE H(rows(d, n))
    BY <1>3, <1>6
  <1>9. Stored(body, n + 1) = [Stored(body, n) EXCEPT ![e.day] = e.h]
    BY <1>2, <1>7, <1>8
  <1> QED
    BY <1>9 DEF e

-----------------------------------------------------------------------------
(* The threads.                                                            *)

\* One request is replaced; the others stay borne out by the tables.
LEMMA OneJob ==
    ASSUME Jobs, NEW w \in Workers, NEW j \in Job, job' = [job EXCEPT ![w] = j],
           \A v \in Workers : v # w =>
              \A k \in Job : k = job[v] => WeekOK(k)' /\ OfferOK(k)',
           WeekOK(j)' /\ OfferOK(j)',
           j.step \in {"insertDay", "insertOffer"} =>
              /\ j.step = job[w].step
              /\ j.res = job[w].res
              /\ j.alone = job[w].alone
    PROVE  Jobs'
  <1>1. \A v \in Workers : /\ job[v] \in Job
                           /\ job'[v] = IF v = w THEN j ELSE job[v]
    BY DEF Jobs
  <1>2. job' \in [Workers -> Job]
    BY DEF Jobs
  <1>3. ASSUME NEW v \in Workers PROVE WeekOK(job[v])' /\ OfferOK(job[v])'
    <2> DEFINE k == IF v = w THEN j ELSE job[v]
    <2>1. k \in Job /\ job'[v] = k
      BY <1>1
    <2>2. ASSUME NEW i \in Job, i = k PROVE WeekOK(i)' /\ OfferOK(i)'
      <3>1. CASE v = w
        <4>1. i = j
          BY <2>2, <3>1
        <4> QED
          BY <4>1
      <3>2. CASE v # w
        <4>1. i = job[v]
          BY <2>2, <3>2
        <4> QED
          BY <3>2, <4>1
      <3> QED
        BY <3>1, <3>2
    <2> HIDE DEF k
    <2> QED
      BY <2>1, <2>2 DEF WeekOK, OfferOK, Stored
  <1>4. Apart'
    BY <1>1 DEF Apart, Jobs
  <1> QED
    BY <1>2, <1>3, <1>4 DEF Jobs

\* Steps that change a request and none of the tables.
LEMMA RequestStep ==
    ASSUME IInv, NEW w \in Workers, NEW j \in Job, WeekOK(j), OfferOK(j),
           j.step \notin {"insertDay", "insertOffer"},
           job' = [job EXCEPT ![w] = j], UNCHANGED <<tables, torn>>
    PROVE  IInv'
  <1>1. \A k \in Job : WeekOK(k) /\ OfferOK(k) => WeekOK(k)' /\ OfferOK(k)'
    BY DEF WeekOK, OfferOK, Stored, tables
  <1>2. \A v \in Workers : job[v] \in Job /\ WeekOK(job[v]) /\ OfferOK(job[v])
    BY DEF IInv, Jobs
  <1>3. Jobs'
    BY <1>1, <1>2, OneJob DEF IInv
  <1> QED
    BY <1>3 DEF IInv, Rows, NoOrphans, EmptyWeek, tables

LEMMA AnswerStep ==
    ASSUME IInv, NEW w \in Workers, Answer(w), UNCHANGED <<tables, torn>>
    PROVE  IInv'
  <1>1. job' = [job EXCEPT ![w] = Idle]
    BY DEF Answer
  <1> QED
    BY <1>1, IdleJob, IdleOK, RequestStep

LEMMA ArriveWeekStep ==
    ASSUME IInv, NEW w \in Workers, NEW r \in Resources, NEW body \in WeekBodies,
           ArriveWeek(w, r, body)
    PROVE  IInv'
  <1> DEFINE j == [step |-> "clearWeek", res |-> r, asked |-> body, done |-> 0,
                   alone |-> TRUE]
  <1>1. Len(body) \in Nat
    BY SalonAssumption
  <1>2. j \in Job /\ WeekOK(j) /\ OfferOK(j)
    BY <1>1 DEF Job, WeekOK, OfferOK
  <1> QED
    BY <1>2, RequestStep DEF ArriveWeek

LEMMA ArriveOffersStep ==
    ASSUME IInv, NEW w \in Workers, NEW r \in Resources, NEW body \in OfferBodies,
           ArriveOffers(w, r, body)
    PROVE  IInv'
  <1> DEFINE j == [step |-> "clearOffers", res |-> r, asked |-> body, done |-> 0,
                   alone |-> TRUE]
  <1>1. Len(body) \in Nat
    BY SalonAssumption
  <1>2. j \in Job /\ WeekOK(j) /\ OfferOK(j)
    BY <1>1 DEF Job, WeekOK, OfferOK
  <1> QED
    BY <1>2, RequestStep DEF ArriveOffers

\* What a reader holds says nothing about replacements.
LEMMA ReaderOK ==
    ASSUME NEW j, j.step \in Reading
    PROVE  WeekOK(j) /\ OfferOK(j)
  BY DEF Reading, WeekOK, OfferOK

LEMMA AnsweredType ==
    ASSUME NEW o \in {{}} \cup {{x} : x \in Override}, NEW h \in Hours \cup {Off}
    PROVE  Answered(o, h) \in Override
  <1>1. CASE o = {}
    BY <1>1 DEF Answered, Override
  <1>2. CASE o # {}
    <2>1. (CHOOSE x \in o : TRUE) \in o
      BY <1>2
    <2> QED
      BY <1>2, <2>1 DEF Answered
  <1> QED
    BY <1>1, <1>2

LEMMA ReadStep ==
    ASSUME IInv, NEW w \in Workers,
           \/ \E r \in Resources, t \in Dates : ArriveRead(w, r, t)
           \/ ReadOverride(w) \/ ReadWeek(w)
    PROVE  /\ IInv' /\ UNCHANGED <<tables, torn>>
           /\ \E j \in LookUp \cup Found : job' = [job EXCEPT ![w] = j]
  <1>1. Rows /\ job \in [Workers -> Job]
    BY DEF IInv, Jobs
  <1>2. LookUp \cup Found \subseteq Job
    BY DEF Job, LookUp, Found
  <1>3. UNCHANGED <<tables, torn>>
    BY DEF ArriveRead, ReadOverride, ReadWeek
  <1>4. \E j \in LookUp \cup Found : job' = [job EXCEPT ![w] = j]
    <2>1. ASSUME NEW r \in Resources, NEW t \in Dates, ArriveRead(w, r, t)
          PROVE  \E j \in LookUp : job' = [job EXCEPT ![w] = j]
      BY <2>1 DEF ArriveRead, LookUp
    <2>2. CASE ReadOverride(w)
      <3> DEFINE r == job[w].res
                 t == job[w].date
                 o == overrides[r][t]
      <3>1. job[w] \in LookUp /\ job[w].step = "readOverride"
        BY <1>1, <2>2, JobShape DEF ReadOverride, At
      <3>2. r \in Resources /\ t \in Dates
        BY <3>1 DEF LookUp
      <3>3. o \in {{}} \cup {{x} : x \in Override} /\ Off \in Hours \cup {Off}
        BY <1>1, <3>2 DEF Rows
      <3>4. Answered(o, Off) \in Override
        BY <3>3, AnsweredType
      <3>5. CASE o = {}
        <4>1. [job[w] EXCEPT !.step = "readWeek"] \in LookUp
          BY <3>1 DEF LookUp
        <4> QED
          BY <2>2, <3>5, <4>1 DEF ReadOverride
      <3>6. CASE o # {}
        <4>1. [step |-> "effective", res |-> r, date |-> t,
               answer |-> Answered(o, Off)] \in Found
          BY <3>2, <3>4 DEF Found
        <4> QED
          BY <2>2, <3>6, <4>1 DEF ReadOverride
      <3> QED
        BY <3>5, <3>6
    <2>3. CASE ReadWeek(w)
      <3> DEFINE r == job[w].res
                 t == job[w].date
                 h == hours[r][Weekday(t)]
      <3>1. job[w] \in LookUp
        BY <1>1, <2>3, JobShape DEF ReadWeek, At
      <3>2. r \in Resources /\ t \in Dates /\ Weekday(t) \in Days
        BY <3>1, SalonAssumption DEF LookUp
      <3>3. h \in Hours \cup {Off}
        BY <1>1, <3>2 DEF Rows
      <3>4. Answered({}, h) \in Override
        BY <3>3, AnsweredType
      <3>5. [step |-> "effective", res |-> r, date |-> t,
             answer |-> Answered({}, h)] \in Found
        BY <3>2, <3>4 DEF Found
      <3> QED
        BY <2>3, <3>5 DEF ReadWeek
    <2> QED
      BY <2>1, <2>2, <2>3
  <1>5. PICK j \in LookUp \cup Found : job' = [job EXCEPT ![w] = j]
    BY <1>4
  <1>6. j.step \in Reading /\ j \in Job
    BY <1>2, <1>5 DEF LookUp, Found, Reading
  <1>7. WeekOK(j) /\ OfferOK(j) /\ j.step \notin {"insertDay", "insertOffer"}
    BY <1>6, ReaderOK DEF Reading
  <1>8. IInv'
    BY <1>3, <1>5, <1>6, <1>7, RequestStep
  <1> QED
    BY <1>3, <1>4, <1>8

-----------------------------------------------------------------------------
(* Replacements.                                                           *)

\* After a DELETE the request inserts, and is alone unless others are inserting
\* for the same resource; those are not alone any more.
LEMMA ClearedJobs ==
    ASSUME IInv, NEW w \in Workers, NEW step \in {"insertDay", "insertOffer"},
           At(w, IF step = "insertDay" THEN "clearWeek" ELSE "clearOffers"),
           Cleared(w, step)
    PROVE  /\ job' \in [Workers -> Job]
           /\ Apart'
           /\ /\ job'[w].step = step /\ job'[w].res = job[w].res
              /\ job'[w].asked = job[w].asked /\ job'[w].done = job[w].done
           /\ \A v \in Workers \ {w} :
                IF v \in Rivals(w, step)
                THEN job'[v] = [job[v] EXCEPT !.alone = FALSE]
                ELSE job'[v] = job[v]
  <1>1. job \in [Workers -> Job] /\ Apart
    BY DEF IInv, Jobs
  <1> DEFINE own == [job[w] EXCEPT !.step = step, !.alone = Rivals(w, step) = {}]
  <1>2. w \notin Rivals(w, step)
    BY DEF Rivals
  <1>3. /\ job'[w] = own
        /\ \A v \in Workers \ {w} :
             IF v \in Rivals(w, step)
             THEN job'[v] = [job[v] EXCEPT !.alone = FALSE]
             ELSE job'[v] = job[v]
    BY <1>2 DEF Cleared
  <1>4. /\ own \in Job /\ own.step = step /\ own.res = job[w].res
        /\ own.asked = job[w].asked /\ own.done = job[w].done
        /\ own.alone = (Rivals(w, step) = {})
    <2>1. CASE step = "insertDay"
      <3>1. job[w] \in WeekJob
        BY <1>1, <2>1, JobShape DEF At
      <3>2. (Rivals(w, step) = {}) \in BOOLEAN
        OBVIOUS
      <3>3. own \in WeekJob
        BY <2>1, <3>1, <3>2 DEF WeekJob
      <3> QED
        BY <3>1, <3>3 DEF WeekJob, Job
    <2>2. CASE step = "insertOffer"
      <3>1. job[w] \in OfferJob
        BY <1>1, <2>2, JobShape DEF At
      <3>2. (Rivals(w, step) = {}) \in BOOLEAN
        OBVIOUS
      <3>3. own \in OfferJob
        BY <2>2, <3>1, <3>2 DEF OfferJob
      <3> QED
        BY <3>1, <3>3 DEF OfferJob, Job
    <2> QED
      BY <2>1, <2>2
  <1> HIDE DEF own
  <1>5. ASSUME NEW v \in Rivals(w, step)
        PROVE  /\ job'[v] \in Job /\ job'[v].step = step /\ ~ job'[v].alone
               /\ v \in Workers /\ job[v].step = step /\ job'[v].res = job[w].res
    <2>1. /\ job'[v] = [job[v] EXCEPT !.alone = FALSE] /\ v \in Workers
          /\ job[v].step = step /\ job[v].res = job[w].res
      BY <1>2, <1>3 DEF Rivals, At
    <2>2. CASE step = "insertDay"
      <3>1. job[v] \in WeekJob
        BY <1>1, <2>1, <2>2, JobShape
      <3> QED
        BY <2>1, <2>2, <3>1 DEF WeekJob, Job
    <2>3. CASE step = "insertOffer"
      <3>1. job[v] \in OfferJob
        BY <1>1, <2>1, <2>3, JobShape
      <3> QED
        BY <2>1, <2>3, <3>1 DEF OfferJob, Job
    <2> QED
      BY <2>2, <2>3
  <1>6. job' \in [Workers -> Job]
    <2>1. \A v \in Workers : job'[v] \in Job
      BY <1>1, <1>3, <1>4, <1>5
    <2> QED
      BY <2>1 DEF Cleared
  <1>7. ASSUME NEW u \in Workers, NEW v \in Workers, u # v,
               job'[u].step = job'[v].step,
               job'[u].step \in {"insertDay", "insertOffer"},
               job'[u].res = job'[v].res
        PROVE  ~ job'[u].alone
    <2>1. CASE u \in Rivals(w, step)
      BY <1>5, <2>1
    <2>2. CASE u = w
      <3>1. v \in Rivals(w, step)
        BY <1>3, <1>4, <1>7, <2>2 DEF Rivals, At
      <3> QED
        BY <1>3, <1>4, <2>2, <3>1
    <2>3. CASE u # w /\ u \notin Rivals(w, step)
      <3>1. job'[u] = job[u] /\ v # w /\ v \notin Rivals(w, step)
        <4>1. job'[u] = job[u]
          BY <1>3, <2>3
        <4>2. ~ (job[u].step = step /\ job[u].res = job[w].res)
          BY <2>3 DEF Rivals, At
        <4>3. v # w
          BY <1>3, <1>4, <1>7, <4>1, <4>2
        <4>4. v \notin Rivals(w, step)
          BY <1>5, <1>7, <4>1, <4>2
        <4> QED
          BY <4>1, <4>3, <4>4
      <3>2. job'[v] = job[v]
        BY <1>3, <3>1
      <3> QED
        BY <1>1, <1>7, <3>1, <3>2 DEF Apart
    <2> QED
      BY <2>1, <2>2, <2>3
  <1>8. Apart'
    BY <1>7 DEF Apart
  <1> QED
    BY <1>3, <1>4, <1>6, <1>8

\* What the others remember survives: a rival is not alone, and the rows of the
\* resources of the rest are not touched.
LEMMA ClearWeekStep ==
    ASSUME IInv, NEW w \in Workers, ClearWeek(w)
    PROVE  IInv'
  <1> DEFINE r == job[w].res
  <1>1. Rows /\ NoOrphans /\ job \in [Workers -> Job]
    BY DEF IInv, Jobs
  <1>2. /\ At(w, "clearWeek") /\ Cleared(w, "insertDay")
        /\ hours' = [hours EXCEPT ![r] = EmptyWeek]
        /\ torn' = torn \cup {r}
        /\ UNCHANGED <<resources, services, offers, overrides>>
    BY DEF ClearWeek
  <1>3. job[w] \in WeekJob /\ r \in Resources /\ WeekOK(job[w])
    BY <1>1, <1>2, JobShape DEF At, WeekJob, IInv, Jobs
  <1>4. /\ job' \in [Workers -> Job]
        /\ Apart'
        /\ /\ job'[w].step = "insertDay" /\ job'[w].res = job[w].res
           /\ job'[w].asked = job[w].asked /\ job'[w].done = job[w].done
        /\ \A v \in Workers \ {w} :
                IF v \in Rivals(w, "insertDay")
                THEN job'[v] = [job[v] EXCEPT !.alone = FALSE]
                ELSE job'[v] = job[v]
    BY <1>2, ClearedJobs
  <1>5. EmptyWeek \in [Days -> Hours \cup {Off}]
    BY DEF EmptyWeek
  <1>6. Rows' /\ NoOrphans'
    BY <1>1, <1>2, <1>3, <1>5 DEF Rows, NoOrphans, EmptyWeek
  <1>7. /\ job[w].done = 0 /\ 0 <= Len(job[w].asked)
        /\ job[w].asked \in WeekBodies
    BY <1>2, <1>3 DEF WeekOK, At, WeekJob
  <1>8. ASSUME NEW v \in Workers PROVE WeekOK(job[v])' /\ OfferOK(job[v])'
    <2>1. CASE v = w
      <3>1. hours'[r] = EmptyWeek /\ r \in torn'
        BY <1>1, <1>2, <1>3 DEF Rows
      <3>2. Stored(job[w].asked, 0) = EmptyWeek
        BY NothingStored
      <3> DEFINE k == job'[w]
      <3>3. k.step = "insertDay" /\ k.res = r /\ k.asked = job[w].asked /\ k.done = 0
        BY <1>4, <1>7
      <3>4. hours'[k.res] = Stored(k.asked, k.done) /\ k.res \in torn'
            /\ k.done <= Len(k.asked)
        BY <1>7, <3>1, <3>2, <3>3
      <3> QED
        BY <2>1, <3>3, <3>4 DEF WeekOK, OfferOK, Stored
    <2>2. CASE v \in Rivals(w, "insertDay")
      <3>1. /\ job'[v] = [job[v] EXCEPT !.alone = FALSE]
            /\ job[v].step = "insertDay" /\ job[v].res = r /\ v # w
        BY <1>4, <2>2 DEF Rivals, At
      <3>2. job[v] \in WeekJob /\ WeekOK(job[v])
        BY <1>1, <3>1, JobShape DEF IInv, Jobs
      <3> DEFINE k == job'[v]
      <3>3. /\ k.step = "insertDay" /\ k.res = r /\ ~ k.alone
            /\ k.asked = job[v].asked /\ k.done = job[v].done
        BY <3>1, <3>2 DEF WeekJob
      <3>4. k.done <= Len(k.asked) /\ k.res \in torn'
        BY <1>2, <3>1, <3>2, <3>3 DEF WeekOK
      <3> QED
        BY <3>3, <3>4 DEF WeekOK, OfferOK
    <2>3. CASE v # w /\ v \notin Rivals(w, "insertDay")
      <3> DEFINE k == job[v]
      <3>1. job'[v] = k /\ k \in Job /\ WeekOK(k) /\ OfferOK(k)
        BY <1>1, <1>4, <2>3 DEF IInv, Jobs
      <3>2. k.step = "insertDay" => k.res # r
        BY <2>3 DEF Rivals, At
      <3>3. k.step = "insertDay" => k \in WeekJob
        BY <3>1, JobShape
      <3> HIDE DEF k
      <3>4. k.step = "insertDay" => hours'[k.res] = hours[k.res]
        BY <1>1, <1>2, <3>2, <3>3 DEF Rows, WeekJob
      <3> QED
        BY <1>2, <3>1, <3>4 DEF WeekOK, OfferOK, Stored
    <2> QED
      BY <2>1, <2>2, <2>3
  <1> QED
    BY <1>4, <1>6, <1>8 DEF IInv, Jobs

LEMMA ClearOffersStep ==
    ASSUME IInv, NEW w \in Workers, ClearOffers(w)
    PROVE  IInv'
  <1> DEFINE r == job[w].res
  <1>1. Rows /\ NoOrphans /\ job \in [Workers -> Job]
    BY DEF IInv, Jobs
  <1>2. /\ At(w, "clearOffers") /\ Cleared(w, "insertOffer")
        /\ offers' = {o \in offers : o[1] # r}
        /\ UNCHANGED <<resources, services, hours, overrides, torn>>
    BY DEF ClearOffers
  <1>3. job[w] \in OfferJob /\ r \in Resources /\ OfferOK(job[w])
    BY <1>1, <1>2, JobShape DEF At, OfferJob, IInv, Jobs
  <1>4. /\ job' \in [Workers -> Job]
        /\ Apart'
        /\ /\ job'[w].step = "insertOffer" /\ job'[w].res = job[w].res
           /\ job'[w].asked = job[w].asked /\ job'[w].done = job[w].done
        /\ \A v \in Workers \ {w} :
                IF v \in Rivals(w, "insertOffer")
                THEN job'[v] = [job[v] EXCEPT !.alone = FALSE]
                ELSE job'[v] = job[v]
    BY <1>2, ClearedJobs
  <1>5. Rows' /\ NoOrphans'
    BY <1>1, <1>2 DEF Rows, NoOrphans, EmptyWeek
  <1>6. /\ job[w].done = 0 /\ 0 <= Len(job[w].asked)
    BY <1>2, <1>3 DEF OfferOK, At
  <1>7. ASSUME NEW v \in Workers PROVE WeekOK(job[v])' /\ OfferOK(job[v])'
    <2>1. CASE v = w
      <3> DEFINE k == job'[w]
      <3>1. k.step = "insertOffer" /\ k.res = r /\ k.done = 0 /\ k.asked = job[w].asked
        BY <1>4, <1>6
      <3>2. {s \in Services : <<k.res, s>> \in offers'} = {}
        BY <1>2, <3>1
      <3>3. {k.asked[i] : i \in 1..k.done} = {}
        BY <3>1
      <3> QED
        BY <1>6, <2>1, <3>1, <3>2, <3>3 DEF WeekOK, OfferOK
    <2>2. CASE v \in Rivals(w, "insertOffer")
      <3>1. /\ job'[v] = [job[v] EXCEPT !.alone = FALSE]
            /\ job[v].step = "insertOffer" /\ job[v].res = r /\ v # w
        BY <1>4, <2>2 DEF Rivals, At
      <3>2. job[v] \in OfferJob /\ OfferOK(job[v])
        BY <1>1, <3>1, JobShape DEF IInv, Jobs
      <3> DEFINE k == job'[v]
      <3>3. /\ k.step = "insertOffer" /\ ~ k.alone
            /\ k.asked = job[v].asked /\ k.done = job[v].done
        BY <3>1, <3>2 DEF OfferJob
      <3>4. k.done <= Len(k.asked)
        BY <3>1, <3>2, <3>3 DEF OfferOK
      <3> QED
        BY <3>3, <3>4 DEF WeekOK, OfferOK
    <2>3. CASE v # w /\ v \notin Rivals(w, "insertOffer")
      <3> DEFINE k == job[v]
      <3>1. job'[v] = k /\ k \in Job /\ WeekOK(k) /\ OfferOK(k)
        BY <1>1, <1>4, <2>3 DEF IInv, Jobs
      <3>2. k.step = "insertOffer" => k.res # r
        BY <2>3 DEF Rivals, At
      <3> HIDE DEF k
      <3>3. k.step = "insertOffer" =>
              {s \in Services : <<k.res, s>> \in offers'}
                = {s \in Services : <<k.res, s>> \in offers}
        BY <1>2, <3>2
      <3> QED
        BY <1>2, <3>1, <3>3 DEF WeekOK, OfferOK, Stored
    <2> QED
      BY <2>1, <2>2, <2>3
  <1> QED
    BY <1>4, <1>5, <1>7 DEF IInv, Jobs

\* The entry an INSERT is due to store.
LEMMA InsertDayStep ==
    ASSUME IInv, NEW w \in Workers, InsertDay(w)
    PROVE  IInv'
  <1> DEFINE r == job[w].res
             n == job[w].done
             body == job[w].asked
             e == body[n + 1]
             new == [job[w] EXCEPT !.done = @ + 1]
  <1>1. Rows /\ NoOrphans /\ Jobs /\ job \in [Workers -> Job]
    BY DEF IInv, Jobs
  <1>2. /\ job[w].step = "insertDay" /\ n < Len(body)
        /\ \/ ~ e.working /\ UNCHANGED hours
           \/ /\ e.working /\ r \in resources /\ hours[r][e.day] = Off
              /\ hours' = [hours EXCEPT ![r][e.day] = e.h]
        /\ UNCHANGED <<resources, services, offers, overrides, torn>>
    BY DEF InsertDay, At, HasMore, Due
  <1>3. /\ job[w] \in WeekJob /\ WeekOK(job[w])
    BY <1>1, <1>2, JobShape DEF Jobs
  <1>4. r \in Resources /\ n \in Nat /\ body \in WeekBodies /\ Len(body) \in Nat
    BY <1>3, SalonAssumption DEF WeekJob
  <1>5. PICK j \in WeekJob : j = new
    <2>1. new \in WeekJob
      BY <1>3, <1>4 DEF WeekJob
    <2> QED
      BY <2>1
  <1>5a. job' = [job EXCEPT ![w] = j]
    BY <1>1, <1>5 DEF InsertDay, Advance
  <1>6. /\ j.step = "insertDay" /\ j.res = r /\ j.asked = body
        /\ j.done = n + 1 /\ j.alone = job[w].alone
    BY <1>2, <1>3, <1>4, <1>5 DEF WeekJob
  <1> HIDE DEF new
  <1>7. e \in Entry
    <2>1. body \in Seq(Entry) /\ n + 1 \in 1..Len(body)
      BY <1>2, <1>4, SalonAssumption, SMTT(60)
    <2> HIDE DEF body, n
    <2> QED
      BY <2>1
  <1>8. e.day \in Days /\ e.h \in Hours
    BY <1>7 DEF Entry
  <1>9. hours' \in [Resources -> [Days -> Hours \cup {Off}]]
    <2>1. hours[r] \in [Days -> Hours \cup {Off}]
      BY <1>1, <1>4 DEF Rows
    <2>2. [hours[r] EXCEPT ![e.day] = e.h] \in [Days -> Hours \cup {Off}]
      BY <1>8, <2>1
    <2>3. UNCHANGED hours
          \/ hours' = [hours EXCEPT ![r] = [hours[r] EXCEPT ![e.day] = e.h]]
      BY <1>2
    <2> QED
      BY <1>1, <1>4, <2>2, <2>3 DEF Rows
  <1>10. Rows' /\ NoOrphans'
    BY <1>1, <1>2, <1>4, <1>8, <1>9 DEF Rows, NoOrphans, EmptyWeek
  <1>11. \A x \in Resources : x # r => hours'[x] = hours[x]
    BY <1>1, <1>2, <1>4 DEF Rows
  <1>12. job[w].alone => hours'[r] = Stored(body, n + 1)
    <2>1. SUFFICES ASSUME job[w].alone PROVE hours'[r] = Stored(body, n + 1)
      OBVIOUS
    <2>2. hours[r] = Stored(body, n)
      BY <1>2, <1>3, <2>1 DEF WeekOK
    <2>3. CASE ~ e.working /\ UNCHANGED hours
      BY <1>2, <1>4, <2>2, <2>3, StoredSkips
    <2>4. CASE /\ e.working /\ r \in resources /\ hours[r][e.day] = Off
               /\ hours' = [hours EXCEPT ![r][e.day] = e.h]
      <3>1. hours'[r] = [hours[r] EXCEPT ![e.day] = e.h]
        BY <1>1, <1>4, <2>4 DEF Rows
      <3>2. Stored(body, n)[e.day] = Off
        BY <2>2, <2>4
      <3>3. Stored(body, n + 1) = [Stored(body, n) EXCEPT ![e.day] = e.h]
        BY <1>2, <1>4, <2>4, <3>2, StoredGrows
      <3> QED
        BY <2>2, <3>1, <3>3
    <2> QED
      BY <1>2, <2>3, <2>4
  <1>13. WeekOK(j)' /\ OfferOK(j)'
    <2>1. j.done <= Len(j.asked)
      BY <1>2, <1>4, <1>6, SMTT(60)
    <2>2. j.alone => hours'[j.res] = Stored(j.asked, j.done)
      BY <1>6, <1>12
    <2>3. j.res \in torn \/ j.res \notin resources
      BY <1>2, <1>3, <1>6 DEF WeekOK
    <2>4. j.alone => j.res \in torn
      BY <1>2, <1>3, <1>6 DEF WeekOK
    <2> QED
      BY <1>2, <1>6, <2>1, <2>2, <2>3, <2>4 DEF WeekOK, OfferOK, Stored
  <1>14. ASSUME NEW v \in Workers, v # w, NEW k \in Job, k = job[v]
         PROVE  WeekOK(k)' /\ OfferOK(k)'
    <2>1. WeekOK(k) /\ OfferOK(k)
      BY <1>1, <1>14 DEF Jobs
    <2>2. k.step = "insertDay" /\ k.alone => k.res # r
      BY <1>1, <1>2, <1>14 DEF Jobs, Apart
    <2>3. k.step = "insertDay" => k.res \in Resources
      BY JobShape DEF WeekJob
    <2>4. k.step = "insertDay" /\ k.alone => hours'[k.res] = hours[k.res]
      BY <1>11, <2>2, <2>3
    <2> QED
      BY <1>2, <2>1, <2>4 DEF WeekOK, OfferOK, Stored
  <1>15. j \in Job
    BY <1>5 DEF Job, WeekJob
  <1>16. Jobs'
    BY <1>1, <1>2, <1>5a, <1>6, <1>13, <1>14, <1>15, OneJob
  <1> QED
    BY <1>10, <1>16 DEF IInv

LEMMA WeekSavedStep ==
    ASSUME IInv, NEW w \in Workers, WeekSaved(w)
    PROVE  IInv'
  <1>1. Rows /\ NoOrphans /\ Jobs /\ job \in [Workers -> Job]
    BY DEF IInv, Jobs
  <1>2. /\ job[w].step = "insertDay" /\ job' = [job EXCEPT ![w] = Idle]
        /\ torn' = IF job[w].alone THEN torn \ {job[w].res} ELSE torn
        /\ UNCHANGED tables
    BY DEF WeekSaved, Answer, At
  <1>3. Rows' /\ NoOrphans'
    BY <1>1, <1>2 DEF Rows, NoOrphans, EmptyWeek, tables
  <1>4. WeekOK(Idle)' /\ OfferOK(Idle)'
    BY IdleJob DEF WeekOK, OfferOK
  <1>5. ASSUME NEW v \in Workers, v # w, NEW k \in Job, k = job[v]
        PROVE  WeekOK(k)' /\ OfferOK(k)'
    <2>1. WeekOK(k) /\ OfferOK(k)
      BY <1>1, <1>5 DEF Jobs
    <2>2. k.step = "insertDay" /\ job[w].alone => k.res # job[w].res
      BY <1>1, <1>2, <1>5 DEF Jobs, Apart
    <2>3. k.step = "insertDay" => (k.res \in torn' <=> k.res \in torn)
      BY <1>2, <2>2
    <2> QED
      BY <1>2, <2>1, <2>3 DEF WeekOK, OfferOK, Stored, tables
  <1>6. Jobs'
    BY <1>1, <1>2, <1>4, <1>5, IdleJob, OneJob
  <1> QED
    BY <1>3, <1>6 DEF IInv

LEMMA InsertOfferStep ==
    ASSUME IInv, NEW w \in Workers, InsertOffer(w)
    PROVE  IInv'
  <1> DEFINE r == job[w].res
             n == job[w].done
             body == job[w].asked
             x == body[n + 1]
             new == [job[w] EXCEPT !.done = @ + 1]
  <1>1. Rows /\ NoOrphans /\ Jobs /\ job \in [Workers -> Job]
    BY DEF IInv, Jobs
  <1>2. /\ job[w].step = "insertOffer" /\ n < Len(body)
        /\ r \in resources /\ x \in services
        /\ offers' = offers \cup {<<r, x>>}
        /\ UNCHANGED <<resources, services, hours, overrides, torn>>
    BY DEF InsertOffer, At, HasMore, Due
  <1>3. job[w] \in OfferJob /\ OfferOK(job[w])
    BY <1>1, <1>2, JobShape DEF Jobs
  <1>4. r \in Resources /\ n \in Nat /\ Len(body) \in Nat
    BY <1>3, SalonAssumption DEF OfferJob
  <1>5. PICK j \in OfferJob : j = new
    <2>1. new \in OfferJob
      BY <1>3, <1>4 DEF OfferJob
    <2> QED
      BY <2>1
  <1>5a. job' = [job EXCEPT ![w] = j]
    BY <1>1, <1>5 DEF InsertOffer, Advance
  <1>6. /\ j.step = "insertOffer" /\ j.res = r /\ j.asked = body
        /\ j.done = n + 1 /\ j.alone = job[w].alone
    BY <1>2, <1>3, <1>4, <1>5 DEF OfferJob
  <1> HIDE DEF new
  <1>7. Rows' /\ NoOrphans'
    BY <1>1, <1>2, SMTT(30) DEF Rows, NoOrphans, EmptyWeek
  <1>8. ASSUME job[w].alone
        PROVE  {s \in Services : <<r, s>> \in offers'}
                 = {body[i] : i \in 1..(n + 1)} \cap services
    <2>1. {s \in Services : <<r, s>> \in offers} = {body[i] : i \in 1..n} \cap services
      BY <1>2, <1>3, <1>8 DEF OfferOK
    <2>2. {s \in Services : <<r, s>> \in offers'}
            = {s \in Services : <<r, s>> \in offers} \cup {x}
      BY <1>1, <1>2 DEF Rows
    <2>3. 1..(n + 1) = (1..n) \cup {n + 1}
      BY <1>4
    <2>4. {body[i] : i \in 1..(n + 1)} = {body[i] : i \in 1..n} \cup {x}
      BY <2>3
    <2> QED
      BY <1>2, <2>1, <2>2, <2>4
  <1>9. WeekOK(j)' /\ OfferOK(j)'
    <2>1. j.done <= Len(j.asked)
      BY <1>2, <1>4, <1>6
    <2>2. j.alone => {s \in Services : <<j.res, s>> \in offers'}
                 = {j.asked[i] : i \in 1..j.done} \cap services'
      BY <1>2, <1>6, <1>8
    <2> QED
      BY <1>6, <2>1, <2>2 DEF WeekOK, OfferOK
  <1>10. ASSUME NEW v \in Workers, v # w, NEW k \in Job, k = job[v]
         PROVE  WeekOK(k)' /\ OfferOK(k)'
    <2>1. WeekOK(k) /\ OfferOK(k)
      BY <1>1, <1>10 DEF Jobs
    <2>2. k.step = "insertOffer" /\ k.alone => k.res # r
      BY <1>1, <1>2, <1>10 DEF Jobs, Apart
    <2>3. k.step = "insertOffer" /\ k.alone =>
            {s \in Services : <<k.res, s>> \in offers'}
              = {s \in Services : <<k.res, s>> \in offers}
      BY <1>2, <2>2
    <2> QED
      BY <1>2, <2>1, <2>3 DEF WeekOK, OfferOK, Stored
  <1>11. j \in Job
    BY <1>5 DEF Job, OfferJob
  <1>12. Jobs'
    BY <1>1, <1>2, <1>5a, <1>6, <1>9, <1>10, <1>11, OneJob
  <1> QED
    BY <1>7, <1>12 DEF IInv

-----------------------------------------------------------------------------
(* Statements that are a request of their own.                             *)

\* No replacement depends on the exceptions of dates.
LEMMA SameJobs ==
    ASSUME Jobs, UNCHANGED <<resources, services, offers, hours, job, torn>>
    PROVE  Jobs'
  <1>1. ASSUME NEW w \in Workers PROVE WeekOK(job[w])' /\ OfferOK(job[w])'
    <2> DEFINE k == job[w]
    <2>1. WeekOK(k) /\ OfferOK(k) /\ job'[w] = k
      BY DEF Jobs
    <2> HIDE DEF k
    <2> QED
      BY <2>1 DEF WeekOK, OfferOK, Stored
  <1> QED
    BY <1>1 DEF Jobs, Apart

LEMMA OverrideStep ==
    ASSUME IInv, NEW r \in Resources, NEW t \in Dates,
           \/ \E o \in Exceptions : SetOverride(r, t, o)
           \/ DeleteOverride(r, t)
    PROVE  IInv'
  <1>1. Rows /\ NoOrphans /\ Jobs
    BY DEF IInv
  <1>2. UNCHANGED <<resources, services, offers, hours, job, torn>>
    BY DEF SetOverride, DeleteOverride
  <1>3. PICK x \in {{}} \cup {{o} : o \in Override} :
           /\ overrides' = [overrides EXCEPT ![r][t] = x]
           /\ x # {} => r \in resources
    <2>1. ASSUME NEW o \in Exceptions, SetOverride(r, t, o)
          PROVE  /\ {o} \in {{}} \cup {{y} : y \in Override}
                 /\ overrides' = [overrides EXCEPT ![r][t] = {o}]
                 /\ r \in resources
      BY <2>1, SalonAssumption DEF SetOverride
    <2>2. CASE DeleteOverride(r, t)
      BY <2>2 DEF DeleteOverride
    <2> QED
      BY <2>1, <2>2
  <1>4. overrides' \in [Resources -> [Dates -> {{}} \cup {{o} : o \in Override}]]
    <2>1. [overrides[r] EXCEPT ![t] = x] \in [Dates -> {{}} \cup {{o} : o \in Override}]
      BY <1>1, <1>3 DEF Rows
    <2> QED
      BY <1>1, <1>3, <2>1 DEF Rows
  <1>5. Rows'
    BY <1>1, <1>2, <1>4 DEF Rows
  <1>6. NoOrphans'
    <2>1. \A q \in Resources, d \in Dates :
             overrides'[q][d] = IF q = r /\ d = t THEN x ELSE overrides[q][d]
      BY <1>1, <1>3 DEF Rows
    <2> QED
      BY <1>1, <1>2, <1>3, <2>1 DEF NoOrphans, EmptyWeek
  <1>7. Jobs'
    BY <1>1, <1>2, SameJobs
  <1> QED
    BY <1>5, <1>6, <1>7 DEF IInv

LEMMA DeleteServiceStep ==
    ASSUME IInv, NEW x \in Services, DeleteService(x)
    PROVE  IInv'
  <1>1. Rows /\ NoOrphans /\ Jobs
    BY DEF IInv
  <1>2. /\ services' = services \ {x} /\ offers' = {o \in offers : o[2] # x}
        /\ UNCHANGED <<resources, hours, overrides, job, torn>>
    BY DEF DeleteService
  <1>3. Rows' /\ NoOrphans'
    BY <1>1, <1>2 DEF Rows, NoOrphans, EmptyWeek
  <1>4. ASSUME NEW w \in Workers PROVE OfferOK(job[w])' /\ WeekOK(job[w])'
    <2> DEFINE k == job[w]
    <2>1. k \in Job /\ OfferOK(k) /\ WeekOK(k) /\ job'[w] = k
      BY <1>1, <1>2 DEF Jobs
    <2> HIDE DEF k
    <2>2. \A s \in Services : <<k.res, s>> \in offers' <=>
                              <<k.res, s>> \in offers /\ s # x
      BY <1>2
    <2>3. {s \in Services : <<k.res, s>> \in offers'}
            = {s \in Services : <<k.res, s>> \in offers} \ {x}
      BY <2>2
    <2>4. \A S : S \cap services' = (S \cap services) \ {x}
      BY <1>2
    <2> QED
      BY <1>2, <2>1, <2>3, <2>4 DEF OfferOK, WeekOK, Stored
  <1>5. Jobs'
    BY <1>1, <1>2, <1>4 DEF Jobs, Apart
  <1> QED
    BY <1>3, <1>5 DEF IInv

\* Replacements that were under way for the artist are no longer alone.
LEMMA DeleteResourceStep ==
    ASSUME IInv, NEW r \in Resources, DeleteResource(r)
    PROVE  IInv'
  <1>1. Rows /\ NoOrphans /\ Jobs /\ job \in [Workers -> Job]
    BY DEF IInv, Jobs
  <1>2. /\ resources' = resources \ {r}
        /\ offers' = {o \in offers : o[1] # r}
        /\ hours' = [hours EXCEPT ![r] = EmptyWeek]
        /\ overrides' = [overrides EXCEPT ![r] = [t \in Dates |-> {}]]
        /\ torn' = torn \ {r}
        /\ services' = services
    BY DEF DeleteResource
  <1> DEFINE hit == {w \in Workers : /\ ~ At(w, "idle") /\ job[w].res = r
                                     /\ "alone" \in DOMAIN job[w]}
  <1>3. job' = [w \in Workers |-> IF w \in hit THEN [job[w] EXCEPT !.alone = FALSE]
                                               ELSE job[w]]
    BY DEF DeleteResource
  <1>4. Rows'
    <2>1. EmptyWeek \in [Days -> Hours \cup {Off}]
      BY DEF EmptyWeek
    <2>2. [t \in Dates |-> {}] \in [Dates -> {{}} \cup {{o} : o \in Override}]
      OBVIOUS
    <2> QED
      BY <1>1, <1>2, <2>1, <2>2 DEF Rows
  <1>5. NoOrphans'
    <2>1. \A q \in Resources : q # r => /\ hours'[q] = hours[q]
                                        /\ overrides'[q] = overrides[q]
      BY <1>1, <1>2 DEF Rows
    <2>2. hours'[r] = EmptyWeek /\ \A t \in Dates : overrides'[r][t] = {}
      BY <1>1, <1>2 DEF Rows
    <2> QED
      BY <1>1, <1>2, <2>1, <2>2 DEF NoOrphans, EmptyWeek
  <1>6. ASSUME NEW w \in hit
        PROVE  /\ job'[w] \in WeekJob \cup OfferJob
               /\ job'[w].step = job[w].step /\ job'[w].res = r
               /\ job'[w].asked = job[w].asked /\ job'[w].done = job[w].done
               /\ ~ job'[w].alone
    <2>1. job'[w] = [job[w] EXCEPT !.alone = FALSE] /\ job[w].res = r
      BY <1>3
    <2>2. job[w] \in WeekJob \cup OfferJob
      BY <1>1, JobShape
    <2>3. CASE job[w] \in WeekJob
      BY <2>1, <2>3 DEF WeekJob
    <2>4. CASE job[w] \in OfferJob
      BY <2>1, <2>4 DEF OfferJob
    <2> QED
      BY <2>2, <2>3, <2>4
  <1>7. \A w \in Workers \ hit : job'[w] = job[w]
    BY <1>3
  <1>8. job' \in [Workers -> Job]
    <2>1. WeekJob \cup OfferJob \subseteq Job
      BY DEF Job, WeekJob, OfferJob
    <2>2. \A w \in Workers : job'[w] \in Job
      BY <1>1, <1>6, <1>7, <2>1
    <2> QED
      BY <1>3, <2>2
  <1>9. ASSUME NEW w \in Workers PROVE WeekOK(job[w])' /\ OfferOK(job[w])'
    <2>1. CASE w \in hit
      <3> DEFINE k == job'[w]
      <3>1. /\ ~ k.alone /\ k.res = r
            /\ k.step = job[w].step /\ k.asked = job[w].asked
            /\ k.done = job[w].done
        BY <1>6, <2>1
      <3>2. WeekOK(job[w]) /\ OfferOK(job[w])
        BY <1>1 DEF Jobs
      <3>3. /\ k.step \in {"clearWeek", "insertDay"} => k.done <= Len(k.asked)
            /\ k.step \in {"clearOffers", "insertOffer"} => k.done <= Len(k.asked)
            /\ k.step \in {"clearWeek", "clearOffers"} => k.done = 0
        BY <3>1, <3>2 DEF WeekOK, OfferOK
      <3>4. k.res \notin resources'
        BY <1>2, <3>1
      <3> QED
        BY <3>1, <3>3, <3>4 DEF WeekOK, OfferOK
    <2>2. CASE w \notin hit
      <3> DEFINE k == job[w]
      <3>1. k \in Job /\ WeekOK(k) /\ OfferOK(k) /\ job'[w] = k
        BY <1>1, <1>7, <2>2 DEF Jobs
      <3>2. k \in WeekJob \cup OfferJob => k.res # r
        BY <2>2, <3>1, JobShape, IdleJob DEF At, WeekJob, OfferJob
      <3>3. /\ k.step = "insertDay" => k \in WeekJob
            /\ k.step = "insertOffer" => k \in OfferJob
        BY <3>1, JobShape
      <3> HIDE DEF k
      <3>4. k.step = "insertDay" =>
               /\ hours'[k.res] = hours[k.res]
               /\ k.res \in torn' <=> k.res \in torn
               /\ k.res \in resources' <=> k.res \in resources
        BY <1>1, <1>2, <3>2, <3>3 DEF Rows, WeekJob
      <3>5. k.step = "insertOffer" =>
               {s \in Services : <<k.res, s>> \in offers'}
                 = {s \in Services : <<k.res, s>> \in offers}
        BY <1>2, <3>2, <3>3
      <3> QED
        BY <1>2, <3>1, <3>4, <3>5 DEF WeekOK, OfferOK, Stored
    <2> QED
      BY <2>1, <2>2
  <1>10. Apart'
    <2>1. ASSUME NEW u \in Workers, NEW v \in Workers, u # v,
                 job'[u].step = job'[v].step,
                 job'[u].step \in {"insertDay", "insertOffer"},
                 job'[u].res = job'[v].res
          PROVE  ~ job'[u].alone
      <3>1. CASE u \in hit
        BY <1>6, <3>1
      <3>2. CASE u \notin hit
        <4>1. job'[u] = job[u]
          BY <1>7, <3>2
        <4>2. job[v].step = job'[v].step /\ job[v].res = job'[v].res
          BY <1>6, <1>7
        <4> QED
          BY <1>1, <2>1, <4>1, <4>2 DEF Jobs, Apart
      <3> QED
        BY <3>1, <3>2
    <2> QED
      BY <2>1 DEF Apart
  <1> QED
    BY <1>4, <1>5, <1>8, <1>9, <1>10 DEF IInv, Jobs

LEMMA NextIInv == IInv /\ [Next]_vars => IInv'
  <1> SUFFICES ASSUME IInv, [Next]_vars PROVE IInv'
    OBVIOUS
  <1>1. CASE UNCHANGED vars
    <2>1. Jobs'
      BY <1>1, SameJobs DEF vars, tables, IInv
    <2> QED
      BY <1>1, <2>1 DEF vars, tables, IInv, Rows, NoOrphans, EmptyWeek
  <1>2. ASSUME NEW w \in Workers, Put(w) PROVE IInv'
    BY <1>2, ArriveWeekStep, ArriveOffersStep, ClearWeekStep, InsertDayStep,
       WeekSavedStep, ClearOffersStep, InsertOfferStep, AnswerStep
       DEF Put, OffersSaved
  <1>3. ASSUME NEW w \in Workers, Read(w) PROVE IInv'
    BY <1>3, ReadStep, AnswerStep DEF Read, HoursRead
  <1>4. ASSUME NEW w \in Workers, StatementRaises(w) PROVE IInv'
    BY <1>4, AnswerStep DEF StatementRaises
  <1>5. CASE Statement
    BY <1>5, OverrideStep, DeleteServiceStep, DeleteResourceStep DEF Statement
  <1> QED
    BY <1>1, <1>2, <1>3, <1>4, <1>5 DEF Next

\* Tables and requests, whatever the readers have seen.
THEOREM SalonInvariant == Spec => []IInv
  BY InitIInv, NextIInv, PTL DEF Spec

\* The rows of a deleted artist or service are gone for good.
THEOREM NothingOrphaned == Spec => []NoOrphans
  <1>1. IInv => NoOrphans
    BY DEF IInv
  <1> QED
    BY <1>1, SalonInvariant, PTL

\* PUT /schedule and PUT /resource-services, when no other one runs into them,
\* have stored exactly what was asked when they answer.
THEOREM UndisturbedReplacement == Spec => []ReplacedExactly
  <1>1. IInv => ReplacedExactly
    BY DEF IInv, Jobs, WeekOK, OfferOK, ReplacedExactly, At
  <1> QED
    BY <1>1, SalonInvariant, PTL

-----------------------------------------------------------------------------
(* The weeks of the artists as a register: what a step of the handlers does *)
(* to the week an administrator sees.                                      *)

Week == [r \in Resources |-> IF r \in torn THEN Unsettled ELSE hours[r]]

LEMMA WeekUnchanged ==
    ASSUME UNCHANGED <<hours, torn>>
    PROVE  Week' = Week
  BY DEF Week

\* Only the resource of the step changes its week.
LEMMA WeekChanges ==
    ASSUME Rows, NEW r \in Resources, NEW value,
           \A q \in Resources \ {r} : /\ q \in torn' <=> q \in torn
                                      /\ hours'[q] = hours[q],
           (IF r \in torn' THEN Unsettled ELSE hours'[r]) = value
    PROVE  Week' = [Week EXCEPT ![r] = value]
  BY DEF Week

LEMMA RegisterStep ==
    ASSUME IInv, [Next]_vars
    PROVE  [Register!Next]_Week
  <1>1. Rows /\ Jobs /\ job \in [Workers -> Job]
    BY DEF IInv, Jobs
  <1>2. CASE UNCHANGED <<hours, torn>>
    BY <1>2, WeekUnchanged
  <1>3. ASSUME NEW w \in Workers, ClearWeek(w) PROVE Register!Next
    <2> DEFINE r == job[w].res
    <2>1. r \in Resources
      BY <1>1, <1>3, JobShape DEF ClearWeek, At, WeekJob
    <2>2. /\ \A q \in Resources \ {r} : /\ q \in torn' <=> q \in torn
                                        /\ hours'[q] = hours[q]
          /\ r \in torn'
      BY <1>1, <1>3, <2>1 DEF ClearWeek, Rows
    <2>3. Week' = [Week EXCEPT ![r] = Unsettled]
      BY <1>1, <2>1, <2>2, WeekChanges
    <2> QED
      BY <2>1, <2>3 DEF Register!Next, Register!Begin, Week
  <1>4. ASSUME NEW w \in Workers, InsertDay(w) PROVE Week' = Week
    <2> DEFINE r == job[w].res
    <2>1. /\ r \in Resources /\ job[w].step = "insertDay"
          /\ r \in torn \/ r \notin resources
      BY <1>1, <1>4, JobShape DEF InsertDay, At, WeekJob, Jobs, WeekOK
    <2>2. torn' = torn /\ (UNCHANGED hours \/ r \in resources)
      BY <1>4 DEF InsertDay
    <2>3. \A q \in Resources \ {r} : hours'[q] = hours[q]
      BY <1>1, <1>4 DEF InsertDay, Rows
    <2> QED
      BY <2>1, <2>2, <2>3 DEF Week
  <1>5. ASSUME NEW w \in Workers, WeekSaved(w) PROVE [Register!Next]_Week
    <2> DEFINE r == job[w].res
               body == job[w].asked
    <2>1. job[w] \in WeekJob /\ WeekOK(job[w]) /\ job[w].step = "insertDay"
      BY <1>1, <1>5, JobShape DEF WeekSaved, At, Jobs
    <2>2. /\ r \in Resources /\ body \in WeekBodies /\ Len(body) \in Nat
          /\ job[w].done \in Nat
      BY <2>1, SalonAssumption DEF WeekJob
    <2>3. job[w].done = Len(body)
      BY <1>5, <2>1, <2>2 DEF WeekOK, WeekSaved, HasMore
    <2>4. CASE ~ job[w].alone
      BY <1>5, <2>4, WeekUnchanged DEF WeekSaved, tables
    <2>5. CASE job[w].alone
      <3>1. r \in torn /\ hours[r] = Stored(body, Len(body))
        BY <2>1, <2>3, <2>5 DEF WeekOK
      <3>2. torn' = torn \ {r} /\ hours' = hours
        BY <1>5, <2>5 DEF WeekSaved, tables
      <3>3. Week' = [Week EXCEPT ![r] = Stored(body, Len(body))]
        BY <1>1, <2>2, <3>1, <3>2, WeekChanges
      <3>4. Week[r] = Unsettled
        BY <2>2, <3>1 DEF Week
      <3> QED
        BY <2>2, <3>3, <3>4 DEF Register!Next, Register!Settle, Week
    <2> QED
      BY <2>4, <2>5
  <1>6. ASSUME NEW r \in Resources, DeleteResource(r) PROVE Register!Next
    <2>1. /\ \A q \in Resources \ {r} : /\ q \in torn' <=> q \in torn
                                        /\ hours'[q] = hours[q]
          /\ r \notin torn' /\ hours'[r] = EmptyWeek
      BY <1>1, <1>6 DEF DeleteResource, Rows
    <2>2. Week' = [Week EXCEPT ![r] = EmptyWeek]
      BY <1>1, <2>1, WeekChanges
    <2> QED
      BY <2>2 DEF Register!Next, Register!Clear, Week
  <1>7. ASSUME NEW w \in Workers, Put(w) PROVE [Register!Next]_Week
    BY <1>2, <1>3, <1>4, <1>5, <1>7 DEF Put, ArriveWeek, ArriveOffers,
       ClearOffers, InsertOffer, OffersSaved, tables
  <1>8. ASSUME NEW w \in Workers, Read(w) \/ StatementRaises(w)
        PROVE  UNCHANGED <<hours, torn>>
    BY <1>8 DEF Read, StatementRaises, ArriveRead, ReadOverride, ReadWeek,
                HoursRead, tables
  <1>9. CASE Statement
    BY <1>2, <1>6, <1>9 DEF Statement, SetOverride, DeleteOverride, DeleteService
  <1>10. CASE UNCHANGED vars
    BY <1>2, <1>10 DEF vars, tables
  <1> QED
    BY <1>2, <1>7, <1>8, <1>9, <1>10 DEF Next

\* Outside replacements an artist's week is one somebody saved, whole.
THEOREM Implements == Spec => ImplementsWeekRegister
  <1>1. Init => Register!Init
    BY DEF Init, Register!Init, EmptyWeek
  <1>2. IInv /\ [Next]_vars => [Register!Next]_Week
    BY RegisterStep
  <1> QED
    BY <1>1, <1>2, SalonInvariant, PTL
       DEF Spec, ImplementsWeekRegister, Register!Spec, Week

-----------------------------------------------------------------------------
(* Readers.                                                                *)

\* The hours in force for resource r at date t.
Now(r, t) == Answered(overrides[r][t], hours[r][Weekday(t)])

Shifted == {"exception", "week"}

\* A reader between its two SELECTs has seen no exception, unless one came
\* since; while the week stays, what it will compute has been in force.
ReaderSees(j, s) ==
    LET h == hours[j.res][Weekday(j.date)] IN
    /\ j.step \in Reading => Now(j.res, j.date) \in s.answers
    /\ j.step = "readWeek" =>
          /\ overrides[j.res][j.date] = {} \/ "exception" \in s.changed
          /\ "week" \in s.changed \/ Answered({}, h) \in s.answers
    /\ j.step = "effective" =>
          j.answer \in s.answers \/ s.changed = Shifted

Readers == /\ seen \in [Workers -> Seen]
           /\ \A w \in Workers : /\ ReaderSees(job[w], seen[w])
                                 /\ job[w].step \notin Reading => seen[w] = Unseen

\* What Watch adds to the memory of a thread that reads after the step.
LEMMA WatchAdds ==
    ASSUME IInv, IInv', Readers, Watch, NEW w \in Workers
    PROVE  /\ job'[w].step \notin Reading => seen'[w] = Unseen
           /\ seen' \in [Workers -> Seen]
           /\ job'[w].step \in Reading =>
                LET r == job'[w].res
                    t == job'[w].date
                IN  /\ seen'[w].answers = seen[w].answers \cup
                          {Answered(overrides'[r][t], hours'[r][Weekday(t)])}
                    /\ seen[w].changed \subseteq seen'[w].changed
                    /\ job[w].step # "idle" =>
                         /\ hours'[r][Weekday(t)] # hours[r][Weekday(t)]
                              => "week" \in seen'[w].changed
                         /\ overrides'[r][t] # overrides[r][t]
                              => "exception" \in seen'[w].changed
  <1> DEFINE New(v, j) ==
        [answers |-> seen[v].answers \cup
             {Answered(overrides'[j.res][j.date], hours'[j.res][Weekday(j.date)])},
         changed |-> seen[v].changed \cup
             {x \in {"exception", "week"} :
                /\ ~ At(v, "idle")
                /\ IF x = "week"
                   THEN hours'[j.res][Weekday(j.date)] # hours[j.res][Weekday(j.date)]
                   ELSE overrides'[j.res][j.date] # overrides[j.res][j.date]}]
  <1>1. \A v \in Workers :
           seen'[v] = IF job'[v].step \in Reading THEN New(v, job'[v]) ELSE Unseen
    BY DEF Watch, Reading
  <1>2. Unseen \in Seen
    BY DEF Unseen, Seen
  <1>3. ASSUME NEW v \in Workers, job'[v].step \in Reading
        PROVE  New(v, job'[v]) \in Seen
    <2>1. job'[v] \in LookUp \cup Found
      BY <1>3, JobShape DEF IInv, Jobs, Reading
    <2>2. /\ job'[v].res \in Resources /\ job'[v].date \in Dates
          /\ Weekday(job'[v].date) \in Days
      BY <2>1, SalonAssumption DEF LookUp, Found
    <2> DEFINE r == job'[v].res
               t == job'[v].date
    <2>3. /\ overrides'[r][t] \in {{}} \cup {{x} : x \in Override}
          /\ hours'[r][Weekday(t)] \in Hours \cup {Off}
      <3>1. overrides' \in [Resources -> [Dates -> {{}} \cup {{x} : x \in Override}]]
        BY DEF IInv, Rows
      <3>2. hours' \in [Resources -> [Days -> Hours \cup {Off}]]
        BY DEF IInv, Rows
      <3> HIDE DEF r, t
      <3>3. r \in Resources /\ t \in Dates /\ Weekday(t) \in Days
        BY <2>2 DEF r, t
      <3> QED
        BY <3>1, <3>2, <3>3
    <2>4. Answered(overrides'[job'[v].res][job'[v].date],
                   hours'[job'[v].res][Weekday(job'[v].date)]) \in Override
      BY <2>3, AnsweredType
    <2>5. seen[v] \in Seen
      BY DEF Readers
    <2> QED
      BY <2>4, <2>5 DEF Seen
  <1>4. seen' \in [Workers -> Seen]
    <2>1. \A v \in Workers : seen'[v] \in Seen
      BY <1>1, <1>2, <1>3
    <2> QED
      BY <2>1 DEF Watch
  <1> HIDE DEF New
  <1>5. CASE job'[w].step \notin Reading
    BY <1>1, <1>4, <1>5
  <1>6. CASE job'[w].step \in Reading
    <2>1. seen'[w] = New(w, job'[w])
      BY <1>1, <1>6
    <2>2. PICK r, t : r = job'[w].res /\ t = job'[w].date
      OBVIOUS
    <2>3. /\ seen'[w].answers = seen[w].answers \cup
                {Answered(overrides'[r][t], hours'[r][Weekday(t)])}
          /\ seen'[w].changed = seen[w].changed \cup
               {x \in {"exception", "week"} :
                  /\ ~ At(w, "idle")
                  /\ IF x = "week"
                     THEN hours'[r][Weekday(t)] # hours[r][Weekday(t)]
                     ELSE overrides'[r][t] # overrides[r][t]}
      BY <2>1, <2>2, SMTT(60) DEF New
    <2>4. job[w].step # "idle" =>
            /\ hours'[r][Weekday(t)] # hours[r][Weekday(t)]
                 => "week" \in seen'[w].changed
            /\ overrides'[r][t] # overrides[r][t]
                 => "exception" \in seen'[w].changed
      BY <2>3 DEF At
    <2>5. seen[w].changed \subseteq seen'[w].changed
      BY <2>3
    <2> QED
      BY <1>4, <1>6, <2>2, <2>3, <2>4, <2>5
  <1> QED
    BY <1>5, <1>6

\* A reader whose request is not replaced by the step.
LEMMA StillReading ==
    ASSUME IInv, IInv', Readers, Watch, NEW w \in Workers, job'[w] = job[w]
    PROVE  ReaderSees(job[w], seen[w])'
  <1>0. PICK r, t : r = job[w].res /\ t = job[w].date
    OBVIOUS
  <1>1. ReaderSees(job[w], seen[w])
    BY DEF Readers
  <1>2. CASE job[w].step \notin Reading
    BY <1>2 DEF ReaderSees, Reading
  <1>3. CASE job[w].step \in Reading
    <2>1. /\ seen'[w].answers = seen[w].answers \cup
                {Answered(overrides'[r][t], hours'[r][Weekday(t)])}
          /\ seen[w].changed \subseteq seen'[w].changed
          /\ hours'[r][Weekday(t)] # hours[r][Weekday(t)] => "week" \in seen'[w].changed
          /\ overrides'[r][t] # overrides[r][t] => "exception" \in seen'[w].changed
          /\ seen'[w] \in Seen
      BY <1>0, <1>3, WatchAdds DEF Reading
    <2>2. Now(r, t)' \in seen'[w].answers
      BY <2>1 DEF Now
    <2>3. job[w].step = "readWeek" =>
             /\ overrides'[r][t] = {} \/ "exception" \in seen'[w].changed
             /\ "week" \in seen'[w].changed
                \/ Answered({}, hours'[r][Weekday(t)]) \in seen'[w].answers
      BY <1>0, <1>1, <2>1 DEF ReaderSees
    <2>4. job[w].step = "effective" =>
             job[w].answer \in seen'[w].answers \/ seen'[w].changed = Shifted
      BY <1>1, <2>1 DEF ReaderSees, Seen, Shifted
    <2> QED
      BY <1>0, <2>2, <2>3, <2>4 DEF ReaderSees, Now
  <1> QED
    BY <1>2, <1>3

\* A reader whose request is replaced: it begins to read, or one of its SELECTs
\* answers.
LEMMA ReaderSteps ==
    ASSUME IInv, IInv', Readers, Watch, NEW w \in Workers,
           \/ \E r \in Resources, t \in Dates : ArriveRead(w, r, t)
           \/ ReadOverride(w) \/ ReadWeek(w)
    PROVE  ReaderSees(job[w], seen[w])'
  <1>1. job \in [Workers -> Job] /\ UNCHANGED tables
    BY ReadStep DEF IInv, Jobs
  <1>2. PICK j \in LookUp \cup Found : job' = [job EXCEPT ![w] = j]
    BY ReadStep
  <1>3. PICK r, t : r = j.res /\ t = j.date
    OBVIOUS
  <1>4. job'[w] = j /\ j.step \in Reading
    BY <1>1, <1>2 DEF LookUp, Found, Reading
  <1>5. /\ seen'[w].answers = seen[w].answers \cup
             {Answered(overrides'[r][t], hours'[r][Weekday(t)])}
        /\ seen[w].changed \subseteq seen'[w].changed
        /\ seen'[w] \in Seen
    BY <1>3, <1>4, WatchAdds
  <1>6. UNCHANGED <<overrides, hours>>
    BY <1>1 DEF tables
  <1>7. Now(r, t)' \in seen'[w].answers
    BY <1>5 DEF Now
  <1>8. ASSUME NEW q \in Resources, NEW d \in Dates, ArriveRead(w, q, d)
        PROVE  ReaderSees(job[w], seen[w])'
    <2>1. job'[w].step = "readOverride"
      BY <1>1, <1>8 DEF ArriveRead
    <2> QED
      BY <1>3, <1>4, <1>7, <2>1 DEF ReaderSees, Now
  <1>9. CASE ReadOverride(w)
    <2> DEFINE o == overrides[job[w].res][job[w].date]
    <2>1. job'[w] = IF o = {}
                    THEN [job[w] EXCEPT !.step = "readWeek"]
                    ELSE [step |-> "effective", res |-> job[w].res,
                          date |-> job[w].date, answer |-> Answered(o, Off)]
      BY <1>1, <1>9 DEF ReadOverride
    <2>2. job[w] \in LookUp
      BY <1>1, <1>9, JobShape DEF ReadOverride, At
    <2>3. CASE o = {}
      <3>1. j.step = "readWeek" /\ r = job[w].res /\ t = job[w].date
        BY <1>3, <1>4, <2>1, <2>2, <2>3 DEF LookUp
      <3>2. overrides'[r][t] = {}
        BY <1>6, <2>3, <3>1
      <3> QED
        BY <1>3, <1>4, <1>5, <1>7, <3>1, <3>2 DEF ReaderSees, Now
    <2>4. CASE o # {}
      <3>1. /\ j.step = "effective" /\ r = job[w].res /\ t = job[w].date
            /\ j.answer = Answered(o, Off)
        BY <1>3, <1>4, <2>1, <2>4, SMTT(60)
      <3>2. Answered(o, hours'[r][Weekday(t)]) = Answered(o, Off)
        BY <2>4 DEF Answered
      <3>3. overrides'[r][t] = o
        BY <1>6, <3>1
      <3>4. j.answer \in seen'[w].answers
        BY <1>5, <3>1, <3>2, <3>3
      <3> QED
        BY <1>3, <1>4, <1>7, <3>1, <3>4 DEF ReaderSees, Now
    <2> QED
      BY <2>3, <2>4
  <1>10. CASE ReadWeek(w)
    <2>1. /\ job[w].step = "readWeek"
          /\ j = [step |-> "effective", res |-> job[w].res, date |-> job[w].date,
                  answer |-> Answered({}, hours[job[w].res][Weekday(job[w].date)])]
      BY <1>1, <1>4, <1>10 DEF ReadWeek, At
    <2>2. /\ j.step = "effective" /\ r = job[w].res /\ t = job[w].date
          /\ j.answer = Answered({}, hours[r][Weekday(t)])
      BY <1>3, <2>1
    <2>3. /\ overrides[r][t] = {} \/ "exception" \in seen[w].changed
          /\ "week" \in seen[w].changed
             \/ Answered({}, hours[r][Weekday(t)]) \in seen[w].answers
      BY <2>1, <2>2 DEF Readers, ReaderSees
    <2>4. j.answer \in seen'[w].answers \/ seen'[w].changed = Shifted
      <3>1. CASE overrides[r][t] = {}
        BY <1>5, <1>6, <2>2, <3>1
      <3>2. CASE "exception" \in seen[w].changed /\ "week" \in seen[w].changed
        BY <1>5, <3>2 DEF Seen, Shifted
      <3>3. CASE Answered({}, hours[r][Weekday(t)]) \in seen[w].answers
        BY <1>5, <2>2, <3>3
      <3> QED
        BY <2>3, <3>1, <3>2, <3>3
    <2> QED
      BY <1>3, <1>4, <1>7, <2>2, <2>4 DEF ReaderSees, Now
  <1> QED
    BY <1>8, <1>9, <1>10

\* Whoever reads after a step goes on reading, or took a reader's step.
LEMMA WhoReads ==
    ASSUME IInv, IInv', Next, NEW v \in Workers, job'[v].step \in Reading
    PROVE  \/ job'[v] = job[v]
           \/ \E r \in Resources, t \in Dates : ArriveRead(v, r, t)
           \/ ReadOverride(v) \/ ReadWeek(v)
  <1>1. job \in [Workers -> Job] /\ job'[v] \in Job /\ Idle.step = "idle"
    BY IdleJob DEF IInv, Jobs
  <1>2. ASSUME NEW w \in Workers, w # v, NEW j, job' = [job EXCEPT ![w] = j]
        PROVE  job'[v] = job[v]
    BY <1>1, <1>2
  <1>3. ASSUME NEW w \in Workers, NEW step, Cleared(w, step),
               step \in {"insertDay", "insertOffer"},
               At(w, IF step = "insertDay" THEN "clearWeek" ELSE "clearOffers")
        PROVE  job'[v] = job[v]
    <2>1. /\ job'[w].step = step
          /\ \A u \in Workers \ {w} :
                IF u \in Rivals(w, step)
                THEN job'[u] = [job[u] EXCEPT !.alone = FALSE]
                ELSE job'[u] = job[u]
      BY <1>3, ClearedJobs
    <2>2. v # w
      BY <1>3, <2>1 DEF Reading
    <2>3. v \in Rivals(w, step) => job'[v].step \in {"insertDay", "insertOffer"}
      <3>1. SUFFICES ASSUME v \in Rivals(w, step)
                     PROVE  job'[v].step \in {"insertDay", "insertOffer"}
        OBVIOUS
      <3>2. job[v].step = step /\ job[v] \in WeekJob \cup OfferJob
        BY <1>1, <1>3, <3>1, JobShape DEF Rivals, At
      <3>3. job'[v] = [job[v] EXCEPT !.alone = FALSE]
        BY <2>1, <2>2, <3>1
      <3> QED
        BY <1>3, <3>2, <3>3 DEF WeekJob, OfferJob
    <2> QED
      BY <2>1, <2>2, <2>3 DEF Reading
  <1>4. ASSUME NEW w \in Workers, Answer(w) PROVE job'[v] = job[v]
    BY <1>1, <1>4 DEF Answer, Reading
  <1>5. ASSUME NEW w \in Workers, Advance(w), job[w].step \notin Reading
        PROVE  job'[v] = job[v]
    <2>1. v = w => FALSE
      <3>1. SUFFICES ASSUME v = w PROVE FALSE
        OBVIOUS
      <3>2. job'[w].step = job[w].step
        BY <1>1, <1>5 DEF Advance
      <3> QED
        BY <1>5, <3>1, <3>2
    <2> QED
      BY <1>1, <1>5, <2>1 DEF Advance
  <1>6. ASSUME NEW w \in Workers, Put(w) PROVE job'[v] = job[v]
    <2>1. ASSUME NEW r \in Resources, NEW body,
                 ArriveWeek(w, r, body) \/ ArriveOffers(w, r, body)
          PROVE  job'[v] = job[v]
      BY <1>1, <2>1 DEF ArriveWeek, ArriveOffers, Reading
    <2>2. CASE ClearWeek(w) \/ ClearOffers(w)
      BY <1>3, <2>2 DEF ClearWeek, ClearOffers
    <2>3. CASE InsertDay(w) \/ InsertOffer(w)
      BY <1>5, <2>3 DEF InsertDay, InsertOffer, At, Reading
    <2>4. CASE WeekSaved(w) \/ OffersSaved(w)
      BY <1>4, <2>4 DEF WeekSaved, OffersSaved
    <2> QED
      BY <1>6, <2>1, <2>2, <2>3, <2>4 DEF Put
  <1>7. ASSUME NEW w \in Workers, Read(w)
        PROVE  \/ job'[v] = job[v]
               \/ \E r \in Resources, t \in Dates : ArriveRead(v, r, t)
               \/ ReadOverride(v) \/ ReadWeek(v)
    <2>1. CASE HoursRead(w)
      BY <1>4, <2>1 DEF HoursRead
    <2>2. CASE w = v
      BY <1>7, <2>1, <2>2 DEF Read
    <2>3. CASE w # v
      BY <1>2, <1>7, <2>1, <2>3, ReadStep DEF Read
    <2> QED
      BY <2>1, <2>2, <2>3
  <1>8. CASE Statement
    <2>1. ASSUME NEW r \in Resources, DeleteResource(r) PROVE job'[v] = job[v]
      <3>1. CASE "alone" \in DOMAIN job[v]
        <4>1. job[v] \in WeekJob \cup OfferJob
          BY <1>1, <3>1, JobShape
        <4>2. job'[v] = job[v] \/ job'[v] = [job[v] EXCEPT !.alone = FALSE]
          BY <2>1 DEF DeleteResource
        <4>3. job'[v].step = job[v].step
          BY <4>1, <4>2 DEF WeekJob, OfferJob
        <4> QED
          BY <4>1, <4>3 DEF WeekJob, OfferJob, Reading
      <3>2. CASE "alone" \notin DOMAIN job[v]
        BY <2>1, <3>2 DEF DeleteResource
      <3> QED
        BY <3>1, <3>2
    <2> QED
      BY <1>8, <2>1 DEF Statement, SetOverride, DeleteOverride, DeleteService
  <1> QED
    BY <1>4, <1>6, <1>7, <1>8 DEF Next, StatementRaises

LEMMA NextReaders == IInv /\ IInv' /\ Readers /\ [Next]_vars => Readers'
  <1> SUFFICES ASSUME IInv, IInv', Readers, [Next]_vars PROVE Readers'
    OBVIOUS
  <1>1. CASE UNCHANGED vars
    <2>1. ASSUME NEW w \in Workers PROVE ReaderSees(job[w], seen[w])'
      BY <1>1 DEF vars, tables, Readers, ReaderSees, Now
    <2> QED
      BY <1>1, <2>1 DEF vars, Readers
  <1>2. CASE Next
    <2>1. Watch
      BY <1>2 DEF Next
    <2>2. ASSUME NEW w \in Workers
          PROVE  /\ ReaderSees(job[w], seen[w])'
                 /\ job'[w].step \notin Reading => seen'[w] = Unseen
      <3>1. job'[w].step \notin Reading => seen'[w] = Unseen
        BY <2>1, WatchAdds
      <3>2. CASE job'[w].step \notin Reading
        BY <3>1, <3>2 DEF ReaderSees, Reading
      <3>3. CASE job'[w].step \in Reading
        BY <1>2, <2>1, <3>3, WhoReads, StillReading, ReaderSteps
      <3> QED
        BY <3>1, <3>2, <3>3
    <2>3. seen' \in [Workers -> Seen]
      <3>1. \A w \in Workers : seen'[w] \in Seen
        BY <2>1, WatchAdds
      <3> QED
        BY <2>1, <3>1 DEF Watch
    <2> QED
      BY <2>2, <2>3 DEF Readers
  <1> QED
    BY <1>1, <1>2

THEOREM ReadersInvariant == Spec => [](IInv /\ Readers)
  <1>1. Init => Readers
    <2> SUFFICES ASSUME Init PROVE Readers
      OBVIOUS
    <2>1. Unseen \in Seen
      BY DEF Unseen, Seen
    <2>2. \A w \in Workers : job[w].step = "idle" /\ seen[w] = Unseen
      BY IdleJob DEF Init
    <2> QED
      BY <2>1, <2>2 DEF Init, Readers, ReaderSees, Reading
  <1> QED
    BY <1>1, InitIInv, NextIInv, NextReaders, PTL DEF Spec

\* Every variable keeps the shape the tables and handlers give it.
THEOREM TypeCorrect == Spec => []TypeOK
  <1>1. IInv /\ Readers => TypeOK
    BY DEF IInv, Rows, Jobs, Readers, Seen, TypeOK
  <1> QED
    BY <1>1, ReadersInvariant, PTL

\* getEffectiveHours answers hours that were in force while it read, unless both
\* the exception and the week of its date changed between its SELECTs.
THEOREM HoursInForce == Spec => []HoursWereInForce
  <1>1. IInv /\ Readers => HoursWereInForce
    BY DEF Readers, ReaderSees, Shifted, HoursWereInForce, At
  <1> QED
    BY <1>1, ReadersInvariant, PTL
=============================================================================
