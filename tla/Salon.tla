-------------------------------- MODULE Salon --------------------------------
(***************************************************************************)
(* Artists (resources), the services they offer, their weekly hours and    *)
(* the exceptions of single dates.  PUT /schedule and PUT                  *)
(* /resource-services delete what the resource has and insert the new rows *)
(* one statement at a time, without a transaction; GET /availability reads *)
(* the exception of the date and then the week.  Each statement is one     *)
(* action; other requests run between them, and any of them may raise.     *)
(***************************************************************************)
EXTENDS Integers, Sequences, FiniteSets

CONSTANTS
    Workers,    \* threads that run handlers
    Resources,
    Services,
    Days,       \* weekdays
    Hours,      \* pairs of opening and closing time
    Off,        \* no row, or no times
    Dates,
    Weekday(_), \* getWeekdayFromDate
    WeekBodies, \* bodies of PUT /schedule: sequences of [day, working, h]
    Exceptions, \* bodies of PUT /schedule-overrides: [working, h]
    OfferBodies,\* bodies of PUT /resource-services: sequences of services
    Unsettled   \* the hours of a week that is being replaced, or is torn

Entry == [day : Days, working : BOOLEAN, h : Hours]
Override == [working : BOOLEAN, h : Hours \cup {Off}]

ASSUME SalonAssumption ==
    /\ WeekBodies \subseteq Seq(Entry)
    /\ Exceptions \subseteq Override
    /\ OfferBodies \subseteq Seq(Services)
    /\ \A d \in Dates : Weekday(d) \in Days
    /\ Off \notin Hours
    /\ Unsettled \notin [Days -> Hours \cup {Off}]

VARIABLES
    resources,  \* rows of resources
    services,   \* rows of salon_services
    offers,     \* rows of resource_services: <<resource, service>>
    hours,      \* hours[r][d]: the row of working_hours, or Off
    overrides,  \* overrides[r][t]: the row of schedule_overrides as a set of
                \* at most one Override
    job,        \* job[w]: the request thread w runs
    torn,       \* history: resources whose week is not one somebody saved
    seen        \* history: what has been true of w's date since w began to read
                \* it: the answers in force, and which of the tables changed

tables == <<resources, services, offers, hours, overrides>>
vars == <<tables, job, torn, seen>>

\* alone: no other replacement of the same rows has run a statement between
\* this one's DELETE and now.
Job == [step : {"idle"}]
  \cup [step : {"clearWeek", "insertDay"}, res : Resources, asked : WeekBodies,
        done : Nat, alone : BOOLEAN]
  \cup [step : {"clearOffers", "insertOffer"}, res : Resources,
        asked : OfferBodies, done : Nat, alone : BOOLEAN]
  \cup [step : {"readOverride", "readWeek"}, res : Resources, date : Dates]
  \cup [step : {"effective"}, res : Resources, date : Dates, answer : Override]

Idle == [step |-> "idle"]
Unseen == [answers |-> {}, changed |-> {}]
EmptyWeek == [d \in Days |-> Off]

Init == /\ resources = Resources
        /\ services = Services
        /\ offers = {}
        /\ hours = [r \in Resources |-> EmptyWeek]
        /\ overrides = [r \in Resources |-> [t \in Dates |-> {}]]
        /\ job = [w \in Workers |-> Idle]
        /\ torn = {}
        /\ seen = [w \in Workers |-> Unseen]

At(w, step) == job[w].step = step
Answer(w) == job' = [job EXCEPT ![w] = Idle]

\* The days a body stores when its first n entries are inserted in order.
Stored(body, n) ==
    [d \in Days |->
        LET rows == {i \in 1..n : body[i].working /\ body[i].day = d}
        IN  IF rows = {} THEN Off ELSE body[CHOOSE i \in rows : TRUE].h]

(* Names ending in "Bug" are faulty variants of the definition after them,  *)
(* used to see that the properties notice.                                 *)
-----------------------------------------------------------------------------
(* Replacing what a resource has                                           *)

ArriveWeek(w, r, body) ==
    /\ At(w, "idle")
    /\ job' = [job EXCEPT ![w] = [step |-> "clearWeek", res |-> r,
                                  asked |-> body, done |-> 0, alone |-> TRUE]]
    /\ UNCHANGED <<tables, torn>>

ArriveOffers(w, r, body) ==
    /\ At(w, "idle")
    /\ job' = [job EXCEPT ![w] = [step |-> "clearOffers", res |-> r,
                                  asked |-> body, done |-> 0, alone |-> TRUE]]
    /\ UNCHANGED <<tables, torn>>

\* The other threads in the middle of replacing the same rows.
Rivals(w, step) == {v \in Workers \ {w} : At(v, step) /\ job[v].res = job[w].res}

\* w deletes the rows of its resource: it and its rivals are no longer alone.
Cleared(w, step) ==
    job' = [v \in Workers |->
              CASE v = w -> [job[w] EXCEPT !.step = step,
                                           !.alone = Rivals(w, step) = {}]
                [] v \in Rivals(w, step) -> [job[v] EXCEPT !.alone = FALSE]
                [] OTHER -> job[v]]

\* The DELETE is forgotten: the INSERTs are taken to replace.
ClearWeekBug(w) ==
    /\ At(w, "clearWeek")
    /\ torn' = torn \cup {job[w].res}
    /\ Cleared(w, "insertDay")
    /\ UNCHANGED tables

\* DELETE FROM working_hours
ClearWeek(w) ==
    /\ At(w, "clearWeek")
    /\ hours' = [hours EXCEPT ![job[w].res] = EmptyWeek]
    /\ torn' = torn \cup {job[w].res}
    /\ Cleared(w, "insertDay")
    /\ UNCHANGED <<resources, services, offers, overrides>>

Due(w) == job[w].asked[job[w].done + 1]
Advance(w) == job' = [job EXCEPT ![w].done = @ + 1]
HasMore(w) == job[w].done < Len(job[w].asked)

\* The row is inserted for a day off as well.
InsertDayBug(w) ==
    /\ At(w, "insertDay") /\ HasMore(w)
    /\ LET r == job[w].res
           e == Due(w)
       IN  /\ r \in resources /\ hours[r][e.day] = Off
           /\ hours' = [hours EXCEPT ![r][e.day] = e.h]
    /\ Advance(w)
    /\ UNCHANGED <<resources, services, offers, overrides, torn>>

\* INSERT INTO working_hours for the next working day; it raises when the
\* resource is gone or the day already has a row.
InsertDay(w) ==
    /\ At(w, "insertDay") /\ HasMore(w)
    /\ LET r == job[w].res
           e == Due(w)
       IN  \/ /\ ~ e.working
              /\ UNCHANGED hours
           \/ /\ e.working
              /\ r \in resources /\ hours[r][e.day] = Off
              /\ hours' = [hours EXCEPT ![r][e.day] = e.h]
    /\ Advance(w)
    /\ UNCHANGED <<resources, services, offers, overrides, torn>>

\* 200 "Schedule saved"
WeekSaved(w) ==
    /\ At(w, "insertDay") /\ ~ HasMore(w)
    /\ torn' = IF job[w].alone THEN torn \ {job[w].res} ELSE torn
    /\ Answer(w)
    /\ UNCHANGED tables

\* DELETE FROM resource_services
ClearOffers(w) ==
    /\ At(w, "clearOffers")
    /\ offers' = {o \in offers : o[1] # job[w].res}
    /\ Cleared(w, "insertOffer")
    /\ UNCHANGED <<resources, services, hours, overrides, torn>>

\* The references of the table are forgotten.
InsertOfferBug(w) ==
    /\ At(w, "insertOffer") /\ HasMore(w)
    /\ offers' = offers \cup {<<job[w].res, Due(w)>>}
    /\ Advance(w)
    /\ UNCHANGED <<resources, services, hours, overrides, torn>>

\* INSERT ... ON CONFLICT DO NOTHING; it raises when either row is gone.
InsertOffer(w) ==
    /\ At(w, "insertOffer") /\ HasMore(w)
    /\ job[w].res \in resources /\ Due(w) \in services
    /\ offers' = offers \cup {<<job[w].res, Due(w)>>}
    /\ Advance(w)
    /\ UNCHANGED <<resources, services, hours, overrides, torn>>

\* 200 "Artist services updated"
OffersSaved(w) ==
    /\ At(w, "insertOffer") /\ ~ HasMore(w)
    /\ Answer(w)
    /\ UNCHANGED <<tables, torn>>

\* A statement raises and the request ends there: 500.
StatementRaises(w) ==
    /\ ~ At(w, "idle") /\ ~ At(w, "effective")
    /\ Answer(w)
    /\ UNCHANGED <<tables, torn>>

-----------------------------------------------------------------------------
(* Reading the hours of a date                                             *)

ArriveRead(w, r, t) ==
    /\ At(w, "idle")
    /\ job' = [job EXCEPT ![w] = [step |-> "readOverride", res |-> r, date |-> t]]
    /\ UNCHANGED <<tables, torn>>

\* The hours when the date has the override o, or none, and the week says h.
Answered(o, h) == CASE o # {} -> CHOOSE x \in o : TRUE
                    [] o = {} /\ h # Off -> [working |-> TRUE, h |-> h]
                    [] OTHER -> [working |-> FALSE, h |-> Off]

\* A date marked as closed falls through to the week.
ReadOverrideBug(w) ==
    /\ At(w, "readOverride")
    /\ LET o == overrides[job[w].res][job[w].date]
       IN  job' = [job EXCEPT ![w] =
                     IF \A x \in o : ~ x.working
                     THEN [@ EXCEPT !.step = "readWeek"]
                     ELSE [step |-> "effective", res |-> @.res, date |-> @.date,
                           answer |-> Answered(o, Off)]]
    /\ UNCHANGED <<tables, torn>>

\* The SELECT on schedule_overrides
ReadOverride(w) ==
    /\ At(w, "readOverride")
    /\ LET o == overrides[job[w].res][job[w].date]
       IN  job' = [job EXCEPT ![w] =
                     IF o = {}
                     THEN [@ EXCEPT !.step = "readWeek"]
                     ELSE [step |-> "effective", res |-> @.res, date |-> @.date,
                           answer |-> Answered(o, Off)]]
    /\ UNCHANGED <<tables, torn>>

\* The SELECT on working_hours
ReadWeek(w) ==
    /\ At(w, "readWeek")
    /\ LET h == hours[job[w].res][Weekday(job[w].date)]
       IN  job' = [job EXCEPT ![w] =
                     [step |-> "effective", res |-> @.res, date |-> @.date,
                      answer |-> Answered({}, h)]]
    /\ UNCHANGED <<tables, torn>>

\* The hours go on to the list of free slots.
HoursRead(w) ==
    /\ At(w, "effective")
    /\ Answer(w)
    /\ UNCHANGED <<tables, torn>>

-----------------------------------------------------------------------------
(* Handlers of one statement                                               *)

\* INSERT ... ON CONFLICT (resource_id, date) DO UPDATE
SetOverride(r, t, o) ==
    /\ r \in resources
    /\ overrides' = [overrides EXCEPT ![r][t] = {o}]
    /\ UNCHANGED <<resources, services, offers, hours, job, torn>>

DeleteOverride(r, t) ==
    /\ overrides' = [overrides EXCEPT ![r][t] = {}]
    /\ UNCHANGED <<resources, services, offers, hours, job, torn>>

\* DELETE FROM salon_services cascades to resource_services; it raises, and
\* changes nothing, when a booking refers to the service.
DeleteService(s) ==
    /\ services' = services \ {s}
    /\ offers' = {o \in offers : o[2] # s}
    /\ UNCHANGED <<resources, hours, overrides, job, torn>>

\* DELETE FROM resources cascades to the three tables.  The week of the
\* resource is then empty, whatever replacement is under way.
DeleteResource(r) ==
    /\ resources' = resources \ {r}
    /\ offers' = {o \in offers : o[1] # r}
    /\ hours' = [hours EXCEPT ![r] = EmptyWeek]
    /\ overrides' = [overrides EXCEPT ![r] = [t \in Dates |-> {}]]
    /\ torn' = torn \ {r}
    /\ job' = [w \in Workers |->
                 IF ~ At(w, "idle") /\ job[w].res = r /\ "alone" \in DOMAIN job[w]
                 THEN [job[w] EXCEPT !.alone = FALSE] ELSE job[w]]
    /\ UNCHANGED services

-----------------------------------------------------------------------------
Put(w) == \/ \E r \in Resources, body \in WeekBodies : ArriveWeek(w, r, body)
          \/ \E r \in Resources, body \in OfferBodies : ArriveOffers(w, r, body)
          \/ ClearWeek(w) \/ InsertDay(w) \/ WeekSaved(w)
          \/ ClearOffers(w) \/ InsertOffer(w) \/ OffersSaved(w)

Read(w) == \/ \E r \in Resources, t \in Dates : ArriveRead(w, r, t)
           \/ ReadOverride(w) \/ ReadWeek(w) \/ HoursRead(w)

Statement == \/ \E r \in Resources, t \in Dates :
                    \/ \E o \in Exceptions : SetOverride(r, t, o)
                    \/ DeleteOverride(r, t)
             \/ \E s \in Services : DeleteService(s)
             \/ \E r \in Resources : DeleteResource(r)

\* A reader has seen what was in force when it began and whatever came after.
Watch ==
    seen' = [w \in Workers |->
        IF job'[w].step \in {"readOverride", "readWeek", "effective"}
        THEN LET r == job'[w].res
                 t == job'[w].date
             IN  [answers |-> seen[w].answers \cup
                      {Answered(overrides'[r][t], hours'[r][Weekday(t)])},
                  changed |-> seen[w].changed \cup
                      {x \in {"exception", "week"} :
                          /\ ~ At(w, "idle")
                          /\ IF x = "week"
                             THEN hours'[r][Weekday(t)] # hours[r][Weekday(t)]
                             ELSE overrides'[r][t] # overrides[r][t]}]
        ELSE Unseen]

Next == /\ \/ \E w \in Workers : Put(w) \/ Read(w) \/ StatementRaises(w)
           \/ Statement
        /\ Watch

Spec == Init /\ [][Next]_vars

-----------------------------------------------------------------------------
\* Every variable keeps the shape the tables and handlers give it.
TypeOK == /\ resources \subseteq Resources
          /\ services \subseteq Services
          /\ offers \subseteq Resources \X Services
          /\ hours \in [Resources -> [Days -> Hours \cup {Off}]]
          /\ overrides \in [Resources -> [Dates ->
                              {{}} \cup {{o} : o \in Override}]]
          /\ job \in [Workers -> Job]
          /\ seen \in [Workers -> [answers : SUBSET Override,
                                   changed : SUBSET {"exception", "week"}]]
          /\ torn \subseteq Resources

\* The rows of a deleted artist or service are gone, and a replacement that was
\* under way when it was deleted does not bring any back.
NoOrphans ==
    /\ \A o \in offers : o[1] \in resources /\ o[2] \in services
    /\ \A r \in Resources \ resources :
          hours[r] = EmptyWeek /\ \A t \in Dates : overrides[r][t] = {}

\* A replacement no other one ran into has stored exactly the rows of the
\* entries it is through with, so at its 200 exactly what was asked.
ReplacedExactly ==
    \A w \in Workers :
        LET j == job[w] IN
        /\ At(w, "insertDay") /\ j.alone =>
              hours[j.res] = Stored(j.asked, j.done)
        /\ At(w, "insertOffer") /\ j.alone =>
              {s \in Services : <<j.res, s>> \in offers} =
                 {j.asked[i] : i \in 1..j.done} \cap services

\* The hours a reader computes from its two SELECTs were in force together at
\* some moment while it read, unless both the exception and the week of its date
\* changed meanwhile.
HoursWereInForce ==
    \A w \in Workers :
        At(w, "effective") =>
            \/ job[w].answer \in seen[w].answers
            \/ seen[w].changed = {"exception", "week"}

Register == INSTANCE WeekRegister WITH
    Weeks <- {Stored(body, Len(body)) : body \in WeekBodies},
    Empty <- EmptyWeek,
    week <- [r \in Resources |-> IF r \in torn THEN Unsettled ELSE hours[r]]

\* Outside replacements an artist's week is always one somebody saved, whole:
\* requests that fail or run into each other leave it unsettled, and only a
\* replacement that is not disturbed settles it again.
ImplementsWeekRegister == Register!Spec
=============================================================================
