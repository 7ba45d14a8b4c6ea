---------------------------- MODULE ReviewsProofs ----------------------------
(***************************************************************************)
(* Proofs about Reviews for any number of bookings, workers and requests:   *)
(* an average computed under the row lock of its salon or worker is still   *)
(* right when it is written, since nothing else that writes what it was     *)
(* computed from can be committed before.  So every commit leaves the       *)
(* averages right, and only an owner's stale save can spoil them.           *)
(***************************************************************************)
EXTENDS Reviews, TLAPS

\* What the transaction t writes as the averages of the salon and of its worker.
SalonAverage(t) == {<<b, StarsAfter(t, b)>> : b \in {x \in Bookings : After(t, x) = "published"}}
WorkerAverage(t) ==
    {<<b, ScoreAfter(t, b)>> :
        b \in {x \in Bookings : RatingAfter(t, x) = "published" /\ WorkerOf[x] = WorkerOf[t.booking]}}

\* The request h takes the step from local[h] to t.
LEMMA GotoType ==
    ASSUME TypeOK, NEW h \in Handlers, NEW t \in Tasks \cup Edits \cup {Idle}, Goto(h, t)
    PROVE  /\ local' \in [Handlers -> Tasks \cup Edits \cup {Idle}]
           /\ local'[h] = t
           /\ \A g \in Handlers \ {h} : local'[g] = local[g]
BY DEF TypeOK, Goto

\* A request at a step of a review holds a task, at one of an edit the row it read.
LEMMA TaskHeld ==
    ASSUME TypeOK, NEW h \in Handlers
    PROVE  /\ local[h].pc \in Steps => local[h] \in Tasks
           /\ local[h].pc \in {"salon_read", "worker_read"} => local[h] \in Edits
BY DEF TypeOK, Tasks, Edits, Idle, Steps

\* A task that keeps its booking and what it writes computes the same averages.
LEMMA SalonSame ==
    ASSUME NEW t, NEW u, u.booking = t.booking, u.write = t.write
    PROVE  SalonAverage(u) = SalonAverage(t)
BY DEF SalonAverage, After, StarsAfter, StatusOver, StarsOver

LEMMA WorkerSame ==
    ASSUME NEW t, NEW u, u.booking = t.booking, u.write = t.write
    PROVE  WorkerAverage(u) = WorkerAverage(t)
BY DEF WorkerAverage, RatingAfter, ScoreAfter, StatusOver, StarsOver

\* So does one whose rows are still as they were.
LEMMA SalonStays ==
    ASSUME NEW t, UNCHANGED <<review, stars>>
    PROVE  SalonAverage(t)' = SalonAverage(t)
BY DEF SalonAverage, After, StarsAfter, StatusOver, StarsOver

LEMMA WorkerStays ==
    ASSUME NEW t, \A b \in Bookings : WorkerOf[b] = WorkerOf[t.booking] =>
                      rating'[b] = rating[b] /\ score'[b] = score[b]
    PROVE  WorkerAverage(t)' = WorkerAverage(t)
BY DEF WorkerAverage, RatingAfter, ScoreAfter, StatusOver, StarsOver

\* An average is a set of ratings.
LEMMA AverageType ==
    ASSUME TypeOK, NEW t \in Tasks
    PROVE  SalonAverage(t) \in Averages /\ WorkerAverage(t) \in Averages
<1>1. t.write.stars \in Stars \cup {0} /\ t.write.score \in Stars \cup {0}
  BY DEF Tasks, Writes
<1>2. \A b \in Bookings : StarsAfter(t, b) \in Stars \cup {0} /\ ScoreAfter(t, b) \in Stars \cup {0}
  BY <1>1 DEF TypeOK, StarsAfter, ScoreAfter, StarsOver
<1> QED BY <1>2 DEF SalonAverage, WorkerAverage, Averages

-----------------------------------------------------------------------------
(* Every action keeps the invariant.                                        *)

\* What a task must satisfy for h to hold it.
Fits(h, t) ==
    /\ t.ratingOnly => t.write.status = "keep" /\ t.write.stars = 0
    /\ t.pc = "worker" => /\ RatesWorker(t)
                          /\ t.averageOf = WorkerAverage(t)
                          /\ \A g \in Handlers \ {h} :
                                HoldsWorker(g) => WorkerOf[local[g].booking] # WorkerOf[t.booking]
    /\ t.pc \in {"salon", "worker"} /\ ~t.ratingOnly =>
          /\ t.average = SalonAverage(t)
          /\ \A g \in Handlers \ {h} : ~HoldsSalon(g)

\* A step that writes no review keeps what the others have computed.
LEMMA OthersKeep ==
    ASSUME IInv, NEW h \in Handlers, NEW t \in Tasks \cup Edits \cup {Idle}, Goto(h, t),
           t \in Tasks => Fits(h, t), UNCHANGED rows,
           average' \in Averages, averageOf' \in [Workers -> Averages]
    PROVE  IInv'
<1>1. /\ local' \in [Handlers -> Tasks \cup Edits \cup {Idle}]
      /\ local'[h] = t
      /\ \A g \in Handlers \ {h} : local'[g] = local[g]
  BY GotoType DEF IInv
<1>2. UNCHANGED <<review, stars, rating, score>>
  BY DEF rows
<1>3. TypeOK'
  BY <1>1, <1>2 DEF IInv, TypeOK
<1>5. t.pc \in Steps => t \in Tasks
  BY DEF Tasks, Edits, Idle, Steps
<1>4. TasksFit'
  BY <1>1, <1>5 DEF IInv, TasksFit, Fits, RatesWorker
<1>6. SalonHeld'
  <2> SUFFICES ASSUME NEW g \in Handlers, HoldsSalon(g)'
               PROVE  /\ local'[g].average = SalonAverage(local[g])'
                      /\ \A k \in Handlers : HoldsSalon(k)' => k = g
    BY DEF SalonHeld, SalonAverage
  <2>1. \A k \in Handlers \ {h} : HoldsSalon(k)' => HoldsSalon(k)
    BY <1>1 DEF HoldsSalon, InTransaction
  <2>2. HoldsSalon(h)' => /\ t \in Tasks /\ t.pc \in {"salon", "worker"} /\ ~t.ratingOnly
                          /\ t.average = SalonAverage(t)
                          /\ \A k \in Handlers \ {h} : ~HoldsSalon(k)
    BY <1>1, <1>5 DEF HoldsSalon, InTransaction, Steps, Fits
  <2>3. local'[g].average = SalonAverage(local'[g])
    <3>1. CASE g = h
      BY <3>1, <1>1, <2>2
    <3>2. CASE g # h
      BY <3>2, <1>1, <2>1 DEF IInv, SalonHeld, SalonAverage
    <3> QED BY <3>1, <3>2
  <2>4. SalonAverage(local[g])' = SalonAverage(local'[g])
    BY <1>2 DEF SalonAverage, After, StarsAfter, StatusOver, StarsOver
  <2>5. \A k \in Handlers : HoldsSalon(k)' => k = g
    BY <2>1, <2>2 DEF IInv, SalonHeld
  <2> QED BY <2>3, <2>4, <2>5
<1>7. WorkerHeld'
  <2> SUFFICES ASSUME NEW g \in Handlers, HoldsWorker(g)'
               PROVE  /\ local'[g].averageOf = WorkerAverage(local[g])'
                      /\ \A k \in Handlers :
                            HoldsWorker(k)' /\ WorkerOf[local'[k].booking] = WorkerOf[local'[g].booking]
                              => k = g
    BY DEF WorkerHeld, WorkerAverage
  <2>1. \A k \in Handlers \ {h} : HoldsWorker(k)' => HoldsWorker(k)
    BY <1>1 DEF HoldsWorker, At
  <2>2. HoldsWorker(h)' => /\ t \in Tasks /\ t.pc = "worker"
                           /\ t.averageOf = WorkerAverage(t)
                           /\ \A k \in Handlers \ {h} :
                                 HoldsWorker(k) => WorkerOf[local[k].booking] # WorkerOf[t.booking]
    BY <1>1, <1>5 DEF HoldsWorker, At, Steps, Fits
  <2>3. local'[g].averageOf = WorkerAverage(local'[g])
    <3>1. CASE g = h
      BY <3>1, <1>1, <2>2
    <3>2. CASE g # h
      BY <3>2, <1>1, <2>1 DEF IInv, WorkerHeld, WorkerAverage
    <3> QED BY <3>1, <3>2
  <2>4. WorkerAverage(local[g])' = WorkerAverage(local'[g])
    BY <1>2 DEF WorkerAverage, RatingAfter, ScoreAfter, StatusOver, StarsOver
  <2>5. ASSUME NEW k \in Handlers, HoldsWorker(k)',
               WorkerOf[local'[k].booking] = WorkerOf[local'[g].booking]
        PROVE  k = g
    BY <1>1, <2>1, <2>2, <2>5 DEF IInv, WorkerHeld
  <2> QED BY <2>3, <2>4, <2>5
<1> QED BY <1>3, <1>4, <1>6, <1>7 DEF IInv

\* So does one that writes nothing at all.
LEMMA QuietKeeps ==
    ASSUME IInv, NEW h \in Handlers, NEW t \in Tasks \cup Edits \cup {Idle}, Goto(h, t),
           t \in Tasks => Fits(h, t), UNCHANGED <<rows, averages>>
    PROVE  IInv'
<1>1. UNCHANGED rows /\ average' \in Averages /\ averageOf' \in [Workers -> Averages]
  BY DEF averages, IInv, TypeOK
<1> QED BY <1>1, OthersKeep

\* A request that has only read holds no lock.
LEMMA DecideKeeps ==
    ASSUME IInv, NEW h \in Handlers, NEW b \in Bookings, NEW w \in Writes, NEW isNew \in BOOLEAN,
           NEW ratingOnly \in BOOLEAN, ratingOnly => w.status = "keep" /\ w.stars = 0,
           Decide(h, b, w, isNew, ratingOnly)
    PROVE  IInv'
<1> DEFINE t == [pc |-> "decided", booking |-> b, write |-> w, isNew |-> isNew,
                 ratingOnly |-> ratingOnly, average |-> {}, averageOf |-> {}]
<1>1. t \in Tasks
  BY DEF Tasks, Steps, Averages
<1>2. Fits(h, t)
  BY DEF Fits
<1>3. Goto(h, t) /\ UNCHANGED <<rows, averages>>
  BY DEF Decide
<1> HIDE DEF t
<1> QED BY <1>1, <1>2, <1>3, QuietKeeps

\* What Write makes is what a task may write.
LEMMA WriteType ==
    ASSUME NEW st \in ReviewStatus \cup {"keep"}, NEW n \in Stars \cup {0},
           NEW rt \in RatingStatus \cup {"keep"}, NEW m \in Stars \cup {0}
    PROVE  /\ Write(st, n, rt, m) \in Writes
           /\ Write(st, n, rt, m).status = st /\ Write(st, n, rt, m).stars = n
BY DEF Write, Writes

LEMMA CreateKeeps ==
    ASSUME IInv, NEW h \in Handlers, NEW b \in Bookings, NEW n \in Stars, NEW m \in Stars \cup {0},
           Create(h, b, n, m)
    PROVE  IInv'
<1> DEFINE w == Write("published", n, IF m = 0 THEN "keep" ELSE "published", m)
<1>1. w \in Writes
  BY WriteType DEF ReviewStatus, RatingStatus
<1>2. Decide(h, b, w, TRUE, FALSE)
  BY DEF Create
<1> HIDE DEF w
<1> QED BY <1>1, <1>2, DecideKeeps

LEMMA UpdateKeeps ==
    ASSUME IInv, NEW h \in Handlers, NEW b \in Bookings, NEW n \in Stars \cup {0},
           NEW m \in Stars \cup {0}, Update(h, b, n, m)
    PROVE  IInv'
<1> DEFINE w == Write("keep", n, "keep", m)
<1>1. w \in Writes
  BY WriteType
<1>2. Decide(h, b, w, FALSE, FALSE)
  BY DEF Update
<1> HIDE DEF w
<1> QED BY <1>1, <1>2, DecideKeeps

LEMMA RemoveKeeps ==
    ASSUME IInv, NEW h \in Handlers, NEW b \in Bookings, Remove(h, b)
    PROVE  IInv'
<1> DEFINE w == Write("withdrawn", 0, IF rating[b] = "none" THEN "keep" ELSE "rejected", 0)
<1>1. w \in Writes
  BY WriteType DEF ReviewStatus, RatingStatus
<1>2. Decide(h, b, w, FALSE, FALSE)
  BY DEF Remove
<1> HIDE DEF w
<1> QED BY <1>1, <1>2, DecideKeeps

LEMMA ModerateKeeps ==
    ASSUME IInv, NEW h \in Handlers, NEW b \in Bookings, NEW status \in {"published", "rejected"},
           Moderate(h, b, status) \/ ModerateWorkerRating(h, b, status)
    PROVE  IInv'
<1>1. CASE Moderate(h, b, status)
  <2> DEFINE w == Write(status, 0, "keep", 0)
  <2>1. w \in Writes
    BY WriteType DEF ReviewStatus
  <2>2. Decide(h, b, w, FALSE, FALSE)
    BY <1>1 DEF Moderate
  <2> HIDE DEF w
  <2> QED BY <2>1, <2>2, DecideKeeps
<1>2. CASE ModerateWorkerRating(h, b, status)
  <2> DEFINE w == Write("keep", 0, status, 0)
  <2>1. w \in Writes /\ w.status = "keep" /\ w.stars = 0
    BY WriteType DEF RatingStatus
  <2>2. Decide(h, b, w, FALSE, TRUE)
    BY <1>2 DEF ModerateWorkerRating
  <2> HIDE DEF w
  <2> QED BY <2>1, <2>2, DecideKeeps
<1> QED BY <1>1, <1>2

LEMMA RollbackKeeps == ASSUME IInv, NEW h \in Handlers, Rollback(h) PROVE IInv'
<1>1. Idle \notin Tasks
  BY DEF Idle, Tasks, Steps
<1> QED BY <1>1, QuietKeeps DEF Rollback

LEMMA UpdateMineKeeps == ASSUME IInv, NEW h \in Handlers, UpdateMine(h) PROVE IInv'
<1> DEFINE t == [pc |-> "salon_read", average |-> average]
<1>1. t \in Edits /\ t \notin Tasks
  BY DEF IInv, TypeOK, Edits, Tasks, Steps
<1>2. Goto(h, t) /\ UNCHANGED <<rows, averages>>
  BY DEF UpdateMine
<1> HIDE DEF t
<1> QED BY <1>1, <1>2, QuietKeeps

LEMMA UpdateWorkerKeeps ==
    ASSUME IInv, NEW h \in Handlers, NEW w \in Workers, UpdateWorker(h, w) PROVE IInv'
<1> DEFINE t == [pc |-> "worker_read", worker |-> w, average |-> averageOf[w]]
<1>1. t \in Edits /\ t \notin Tasks
  BY DEF IInv, TypeOK, Edits, Tasks, Steps
<1>2. Goto(h, t) /\ UNCHANGED <<rows, averages>>
  BY DEF UpdateWorker
<1> HIDE DEF t
<1> QED BY <1>1, <1>2, QuietKeeps

LEMMA SavesKeep ==
    ASSUME IInv, NEW h \in Handlers, SaveSalon(h) \/ SaveWorker(h) PROVE IInv'
<1>1. local[h] \in Edits
  BY TaskHeld DEF IInv, SaveSalon, SaveWorker, At
<1>2. local[h].average \in Averages
  BY <1>1 DEF Edits
<1>3. average' \in Averages /\ averageOf' \in [Workers -> Averages]
  BY <1>2 DEF SaveSalon, SaveWorker, IInv, TypeOK
<1>4. Idle \notin Tasks
  BY DEF Idle, Tasks, Steps
<1>5. Goto(h, Idle) /\ UNCHANGED rows
  BY DEF SaveSalon, SaveWorker
<1> QED BY <1>3, <1>4, <1>5, OthersKeep

LEMMA WriteReviewKeeps == ASSUME IInv, NEW h \in Handlers, WriteReview(h) PROVE IInv'
<1> DEFINE t == [local[h] EXCEPT !.pc = "written"]
<1>1. local[h] \in Tasks /\ local[h].pc \in Steps
  BY TaskHeld DEF Steps, WriteReview, At, IInv
<1>2. /\ t \in Tasks
      /\ t.pc = "written" /\ t.ratingOnly = local[h].ratingOnly /\ t.write = local[h].write
  BY <1>1 DEF Tasks, Steps
<1>3. Goto(h, t) /\ UNCHANGED <<rows, averages>>
  BY DEF WriteReview
<1> HIDE DEF t
<1>4. Fits(h, t)
  BY <1>1, <1>2 DEF Fits, IInv, TasksFit
<1> QED BY <1>2, <1>3, <1>4, QuietKeeps

LEMMA RecomputeSalonRatingKeeps ==
    ASSUME IInv, NEW h \in Handlers, RecomputeSalonRating(h) PROVE IInv'
<1> DEFINE a == SalonAverage(local[h])
           t == [local[h] EXCEPT !.pc = "salon", !.average = a]
<1>1. local[h] \in Tasks /\ local[h].pc \in Steps
  BY TaskHeld DEF Steps, RecomputeSalonRating, At, IInv
<1>2. Goto(h, t) /\ UNCHANGED <<rows, averages>>
  BY DEF RecomputeSalonRating, SalonAverage
<1>3. a \in Averages
  BY <1>1, AverageType DEF IInv
<1> HIDE DEF a
<1>4. /\ t \in Tasks
      /\ t.pc = "salon" /\ t.ratingOnly = local[h].ratingOnly /\ t.write = local[h].write
      /\ t.average = a /\ t.booking = local[h].booking
  BY <1>1, <1>3 DEF Tasks, Steps
<1> HIDE DEF t
<1>5. a = SalonAverage(t)
  BY <1>4, SalonSame DEF a
<1>6. \A g \in Handlers \ {h} : ~HoldsSalon(g)
  BY DEF RecomputeSalonRating, SalonFree, SalonHeldBy, HoldsSalon
<1>7. Fits(h, t)
  BY <1>1, <1>4, <1>5, <1>6 DEF Fits, IInv, TasksFit
<1> QED BY <1>2, <1>4, <1>7, QuietKeeps

LEMMA RecomputeWorkerRatingKeeps ==
    ASSUME IInv, NEW h \in Handlers, RecomputeWorkerRating(h) PROVE IInv'
<1> DEFINE a == WorkerAverage(local[h])
           t == [local[h] EXCEPT !.pc = "worker", !.averageOf = a]
<1>1. local[h] \in Tasks /\ local[h].pc \in Steps /\ RatesWorker(local[h])
  BY TaskHeld DEF Steps, RatesNext, RecomputeWorkerRating, At, IInv
<1>2. Goto(h, t) /\ UNCHANGED <<rows, averages>>
  BY DEF RecomputeWorkerRating, WorkerAverage
<1>3. a \in Averages
  BY <1>1, AverageType DEF IInv
<1> HIDE DEF a
<1>4. /\ t \in Tasks
      /\ t.pc = "worker" /\ t.ratingOnly = local[h].ratingOnly /\ t.write = local[h].write
      /\ t.averageOf = a /\ t.booking = local[h].booking /\ t.average = local[h].average
  BY <1>1, <1>3 DEF Tasks, Steps
<1> HIDE DEF t
<1>5. a = WorkerAverage(t)
  BY <1>4, WorkerSame DEF a
<1>6. \A g \in Handlers \ {h} : HoldsWorker(g) => WorkerOf[local[g].booking] # WorkerOf[t.booking]
  BY <1>4 DEF RecomputeWorkerRating, WorkerFree, HoldsWorker
<1>7. ~t.ratingOnly => t.average = SalonAverage(t) /\ \A g \in Handlers \ {h} : ~HoldsSalon(g)
  <2> SUFFICES ASSUME ~t.ratingOnly
               PROVE  t.average = SalonAverage(t) /\ \A g \in Handlers \ {h} : ~HoldsSalon(g)
    OBVIOUS
  <2>1. HoldsSalon(h)
    BY <1>1, <1>4 DEF RecomputeWorkerRating, RatesNext, HoldsSalon, InTransaction, At
  <2>2. local[h].average = SalonAverage(local[h]) /\ \A g \in Handlers : HoldsSalon(g) => g = h
    BY <2>1 DEF IInv, SalonHeld, SalonAverage
  <2> QED BY <1>4, <2>2, SalonSame
<1>8. Fits(h, t)
  BY <1>1, <1>4, <1>5, <1>6, <1>7 DEF Fits, IInv, TasksFit, RatesWorker
<1> QED BY <1>2, <1>4, <1>8, QuietKeeps

\* What a commit does to the tables and to the other requests.
LEMMA CommitWrites ==
    ASSUME IInv, NEW h \in Handlers, Commit(h)
    PROVE  /\ local[h] \in Tasks /\ local[h].pc \in Steps
           /\ local' \in [Handlers -> Tasks \cup Edits \cup {Idle}]
           /\ local'[h] = Idle /\ \A g \in Handlers \ {h} : local'[g] = local[g]
           /\ local[h].ratingOnly => UNCHANGED <<review, stars, average>>
           /\ ~local[h].ratingOnly => HoldsSalon(h) /\ average' = local[h].average
           /\ \A b \in Bookings : /\ review'[b] = After(local[h], b)
                                  /\ stars'[b] = StarsAfter(local[h], b)
                                  /\ rating'[b] = RatingAfter(local[h], b)
                                  /\ score'[b] = ScoreAfter(local[h], b)
           /\ RatesWorker(local[h]) => HoldsWorker(h)
           /\ \A b \in Bookings : ~RatesWorker(local[h]) \/ WorkerOf[b] # WorkerOf[local[h].booking] =>
                 rating'[b] = rating[b] /\ score'[b] = score[b]
           /\ averageOf' = [w \in Workers |-> IF RatesWorker(local[h]) /\ WorkerOf[local[h].booking] = w
                                              THEN local[h].averageOf ELSE averageOf[w]]
<1>1. local[h] \in Tasks /\ local[h].pc \in Steps /\ Goto(h, Idle)
  BY TaskHeld DEF Steps, Commit, IInv
<1>2. /\ local' \in [Handlers -> Tasks \cup Edits \cup {Idle}]
      /\ local'[h] = Idle /\ \A g \in Handlers \ {h} : local'[g] = local[g]
  BY <1>1, GotoType DEF IInv
<1>3. \A b \in Bookings : /\ review'[b] = After(local[h], b)
                          /\ stars'[b] = StarsAfter(local[h], b)
                          /\ rating'[b] = RatingAfter(local[h], b)
                          /\ score'[b] = ScoreAfter(local[h], b)
  BY DEF Commit
<1>4. ASSUME local[h].ratingOnly PROVE UNCHANGED <<review, stars, average>>
  <2>1. local[h].write.status = "keep" /\ local[h].write.stars = 0
    BY <1>1, <1>4 DEF IInv, TasksFit
  <2>2. \A b \in Bookings : After(local[h], b) = review[b] /\ StarsAfter(local[h], b) = stars[b]
    BY <2>1 DEF After, StarsAfter, StatusOver, StarsOver
  <2>3. review' = [b \in Bookings |-> review[b]] /\ stars' = [b \in Bookings |-> stars[b]]
    BY <2>2 DEF Commit
  <2> QED BY <1>4, <2>3 DEF Commit, IInv, TypeOK
<1>5. ~local[h].ratingOnly => HoldsSalon(h) /\ average' = local[h].average
  BY <1>1 DEF Commit, HoldsSalon, InTransaction
<1>6. RatesWorker(local[h]) => HoldsWorker(h)
  BY <1>1 DEF Commit, HoldsWorker, At
<1>7. ASSUME NEW b \in Bookings,
             ~RatesWorker(local[h]) \/ WorkerOf[b] # WorkerOf[local[h].booking]
      PROVE  rating'[b] = rating[b] /\ score'[b] = score[b]
  BY <1>3, <1>7 DEF RatesWorker, RatingAfter, ScoreAfter, StatusOver, StarsOver
<1>8. averageOf' = [w \in Workers |-> IF RatesWorker(local[h]) /\ WorkerOf[local[h].booking] = w
                                     THEN local[h].averageOf ELSE averageOf[w]]
  BY DEF Commit
<1> QED BY <1>1, <1>2, <1>3, <1>4, <1>5, <1>6, <1>7, <1>8

LEMMA CommitTypes == ASSUME IInv, NEW h \in Handlers, Commit(h) PROVE TypeOK'
<1> DEFINE t == local[h]
<1>1. t \in Tasks
  BY CommitWrites
<1>2. /\ t.write.status \in ReviewStatus \cup {"keep"} /\ t.write.stars \in Stars \cup {0}
      /\ t.write.rating \in RatingStatus \cup {"keep"} /\ t.write.score \in Stars \cup {0}
      /\ t.average \in Averages /\ t.averageOf \in Averages
  BY <1>1 DEF Tasks, Writes
<1>3. \A b \in Bookings :
        /\ After(t, b) \in ReviewStatus /\ StarsAfter(t, b) \in Stars \cup {0}
        /\ RatingAfter(t, b) \in RatingStatus /\ ScoreAfter(t, b) \in Stars \cup {0}
  BY <1>2 DEF IInv, TypeOK, After, StarsAfter, RatingAfter, ScoreAfter, StatusOver, StarsOver
<1>4. /\ review' \in [Bookings -> ReviewStatus] /\ stars' \in [Bookings -> Stars \cup {0}]
      /\ rating' \in [Bookings -> RatingStatus] /\ score' \in [Bookings -> Stars \cup {0}]
  BY <1>3 DEF Commit
<1>5. average' \in Averages /\ averageOf' \in [Workers -> Averages]
  BY <1>2 DEF Commit, IInv, TypeOK
<1> QED BY <1>4, <1>5, CommitWrites DEF TypeOK

\* The averages that a commit computed are those of the rows it leaves, and it does not touch
\* what the others are the averages of.
LEMMA CommitMatches ==
    ASSUME IInv, NEW h \in Handlers, Commit(h)
    PROVE  /\ ~local[h].ratingOnly \/ Matches => Matches'
           /\ \A w \in Workers :
                (RatesWorker(local[h]) /\ WorkerOf[local[h].booking] = w) \/ MatchesOf(w)
                  => MatchesOf(w)'
<1> DEFINE t == local[h]
<1>1. ASSUME ~t.ratingOnly \/ Matches PROVE Matches'
  <2>1. CASE t.ratingOnly
    BY <1>1, <2>1, CommitWrites DEF Matches, Published
  <2>2. CASE ~t.ratingOnly
    <3>1. average' = SalonAverage(t)
      BY <2>2, CommitWrites DEF IInv, SalonHeld, SalonAverage
    <3>2. Published' = SalonAverage(t)
      BY CommitWrites DEF Published, SalonAverage
    <3> QED BY <3>1, <3>2 DEF Matches
  <2> QED BY <2>1, <2>2
<1>2. ASSUME NEW w \in Workers, (RatesWorker(t) /\ WorkerOf[t.booking] = w) \/ MatchesOf(w)
      PROVE  MatchesOf(w)'
  <2>1. CASE RatesWorker(t) /\ WorkerOf[t.booking] = w
    <3>1. averageOf'[w] = WorkerAverage(t)
      BY <2>1, CommitWrites DEF IInv, WorkerHeld, WorkerAverage
    <3>2. PublishedOf(w)' = WorkerAverage(t)
      BY <2>1, CommitWrites DEF PublishedOf, WorkerAverage
    <3> QED BY <3>1, <3>2 DEF MatchesOf
  <2>2. CASE ~(RatesWorker(t) /\ WorkerOf[t.booking] = w)
    <3>1. averageOf'[w] = PublishedOf(w)
      BY <1>2, <2>2, CommitWrites DEF MatchesOf
    <3>2. \A b \in Bookings : WorkerOf[b] = w => rating'[b] = rating[b] /\ score'[b] = score[b]
      BY <2>2, CommitWrites
    <3>3. PublishedOf(w)' = PublishedOf(w)
      BY <3>2 DEF PublishedOf
    <3> QED BY <3>1, <3>3 DEF MatchesOf
  <2> QED BY <2>1, <2>2
<1> QED BY <1>1, <1>2

\* Whoever computed an average under another row is not disturbed.
LEMMA CommitKeeps == ASSUME IInv, NEW h \in Handlers, Commit(h) PROVE IInv'
<1>1. \A g \in Handlers : HoldsSalon(g)' => g # h /\ HoldsSalon(g) /\ local'[g] = local[g]
  BY CommitWrites DEF HoldsSalon, InTransaction, Idle
<1>2. \A g \in Handlers : HoldsWorker(g)' => g # h /\ HoldsWorker(g) /\ local'[g] = local[g]
  BY CommitWrites DEF HoldsWorker, At, Idle
<1>3. TasksFit'
  BY CommitWrites DEF IInv, TasksFit, RatesWorker, Idle, Steps
<1>4. SalonHeld'
  <2> SUFFICES ASSUME NEW g \in Handlers, HoldsSalon(g)'
               PROVE  /\ local'[g].average = SalonAverage(local[g])'
                      /\ \A k \in Handlers : HoldsSalon(k)' => k = g
    BY DEF SalonHeld, SalonAverage
  <2>1. UNCHANGED <<review, stars>>
    BY <1>1, CommitWrites DEF IInv, SalonHeld
  <2>2. local[g].average = SalonAverage(local[g])
    BY <1>1 DEF IInv, SalonHeld, SalonAverage
  <2>3. SalonAverage(local[g])' = SalonAverage(local[g])
    BY <1>1, <2>1 DEF SalonAverage, After, StarsAfter, StatusOver, StarsOver
  <2> QED BY <1>1, <2>2, <2>3 DEF IInv, SalonHeld
<1>5. WorkerHeld'
  <2> SUFFICES ASSUME NEW g \in Handlers, HoldsWorker(g)'
               PROVE  /\ local'[g].averageOf = WorkerAverage(local[g])'
                      /\ \A k \in Handlers :
                            HoldsWorker(k)' /\ WorkerOf[local'[k].booking] = WorkerOf[local'[g].booking]
                              => k = g
    BY DEF WorkerHeld, WorkerAverage
  <2>1. \A b \in Bookings : WorkerOf[b] = WorkerOf[local[g].booking] =>
          rating'[b] = rating[b] /\ score'[b] = score[b]
    BY <1>2, CommitWrites DEF IInv, WorkerHeld
  <2>2. local[g].averageOf = WorkerAverage(local[g])
    BY <1>2 DEF IInv, WorkerHeld, WorkerAverage
  <2>3. WorkerAverage(local[g])' = WorkerAverage(local[g])
    BY <1>2, <2>1 DEF WorkerAverage, RatingAfter, ScoreAfter, StatusOver, StarsOver
  <2> QED BY <1>2, <2>2, <2>3 DEF IInv, WorkerHeld
<1> QED BY <1>3, <1>4, <1>5, CommitTypes DEF IInv

-----------------------------------------------------------------------------

LEMMA InitHolds == Init => IInv
<1> SUFFICES ASSUME Init PROVE IInv
  OBVIOUS
<1>1. \A h \in Handlers : local[h] = Idle
  BY DEF Init
<1>2. TypeOK
  BY DEF Init, TypeOK, ReviewStatus, RatingStatus, Averages
<1>3. TasksFit /\ SalonHeld /\ WorkerHeld
  BY <1>1 DEF TasksFit, SalonHeld, WorkerHeld, HoldsSalon, HoldsWorker, InTransaction, At,
             Idle, Steps
<1> QED BY <1>2, <1>3 DEF IInv

LEMMA NextKeeps == IInv /\ [Next]_vars => IInv'
<1> SUFFICES ASSUME IInv, [Next]_vars PROVE IInv'
  OBVIOUS
<1>1. ASSUME NEW h \in Handlers, NEW b \in Bookings,
             \/ \E n \in Stars, m \in Stars \cup {0} : Create(h, b, n, m)
             \/ \E n, m \in Stars \cup {0} : Update(h, b, n, m)
             \/ Remove(h, b)
             \/ \E status \in {"published", "rejected"} :
                   Moderate(h, b, status) \/ ModerateWorkerRating(h, b, status)
      PROVE  IInv'
  BY <1>1, CreateKeeps, UpdateKeeps, RemoveKeeps, ModerateKeeps
<1>2. ASSUME NEW h \in Handlers,
             \/ WriteReview(h) \/ RecomputeSalonRating(h) \/ RecomputeWorkerRating(h)
             \/ Commit(h) \/ Rollback(h)
             \/ UpdateMine(h) \/ SaveSalon(h)
             \/ (\E w \in Workers : UpdateWorker(h, w)) \/ SaveWorker(h)
      PROVE  IInv'
  BY <1>2, WriteReviewKeeps, RecomputeSalonRatingKeeps, RecomputeWorkerRatingKeeps, CommitKeeps,
     RollbackKeeps, UpdateMineKeeps, UpdateWorkerKeeps, SavesKeep
<1>3. CASE UNCHANGED vars
  <2>1. /\ UNCHANGED <<review, stars, rating, score>>
        /\ UNCHANGED <<average, averageOf, local>>
    BY <1>3 DEF vars, rows, averages
  <2>2. TypeOK' /\ TasksFit'
    BY <2>1 DEF IInv, TypeOK, TasksFit, RatesWorker
  <2>3. SalonHeld'
    BY <2>1 DEF IInv, SalonHeld, HoldsSalon, InTransaction, After, StarsAfter, StatusOver, StarsOver
  <2>4. WorkerHeld'
    BY <2>1 DEF IInv, WorkerHeld, HoldsWorker, At, RatingAfter, ScoreAfter, StatusOver, StarsOver
  <2> QED BY <2>2, <2>3, <2>4 DEF IInv
<1> QED BY <1>1, <1>2, <1>3 DEF Next

\* The inductive invariant: what was computed under a row lock is right until it is written.
THEOREM Invariant == Spec => []IInv
BY InitHolds, NextKeeps, PTL DEF Spec

\* A step keeps the averages those of the rows, or makes them so: a commit by what it computed
\* under the row locks, any other but an owner's save by writing neither.
LEMMA StepFollows ==
    ASSUME IInv, Next
    PROVE  AveragesFollow
<1>1. ASSUME Recomputes PROVE Matches'
  BY <1>1, CommitMatches DEF Recomputes
<1>2. ASSUME NEW w \in Workers, RecomputesOf(w) PROVE MatchesOf(w)'
  BY <1>2, CommitMatches DEF RecomputesOf
<1>3. ASSUME UNCHANGED rows
      PROVE  /\ average' = average /\ Matches => Matches'
             /\ \A w \in Workers : averageOf'[w] = averageOf[w] /\ MatchesOf(w) => MatchesOf(w)'
  BY <1>3 DEF rows, Matches, MatchesOf, Published, PublishedOf
<1>4. ASSUME UNCHANGED <<rows, averages>> PROVE AveragesFollow
  BY <1>1, <1>2, <1>3, <1>4 DEF AveragesFollow, averages
<1>5. ASSUME NEW h \in Handlers, Commit(h) PROVE AveragesFollow
  BY <1>1, <1>2, <1>5, CommitMatches DEF AveragesFollow
<1>6. ASSUME NEW h \in Handlers, SaveSalon(h) PROVE AveragesFollow
  <2>1. UNCHANGED <<rows, averageOf>> /\ average' = local[h].average
    BY <1>6 DEF SaveSalon
  <2>2. average' # average => StaleSave
    BY <1>6, <2>1 DEF StaleSave
  <2> QED BY <1>1, <1>2, <1>3, <2>1, <2>2 DEF AveragesFollow
<1>7. ASSUME NEW h \in Handlers, SaveWorker(h) PROVE AveragesFollow
  <2>1. UNCHANGED <<rows, average>>
    BY <1>7 DEF SaveWorker
  <2>2. ASSUME NEW w \in Workers, averageOf'[w] # averageOf[w] PROVE StaleSaveOf(w)
    <3>1. local[h].worker = w /\ averageOf'[w] = local[h].average
      BY <1>7, <2>2 DEF SaveWorker, IInv, TypeOK
    <3> QED BY <1>7, <2>2, <3>1 DEF StaleSaveOf
  <2> QED BY <1>1, <1>2, <1>3, <2>1, <2>2 DEF AveragesFollow
<1>8. ASSUME NEW h \in Handlers, NEW b \in Bookings,
             \/ \E n \in Stars, m \in Stars \cup {0} : Create(h, b, n, m)
             \/ \E n, m \in Stars \cup {0} : Update(h, b, n, m)
             \/ Remove(h, b)
             \/ \E status \in {"published", "rejected"} :
                   Moderate(h, b, status) \/ ModerateWorkerRating(h, b, status)
      PROVE  UNCHANGED <<rows, averages>>
  BY <1>8 DEF Create, Update, Remove, Moderate, ModerateWorkerRating, Decide
<1>9. ASSUME NEW h \in Handlers,
             \/ WriteReview(h) \/ RecomputeSalonRating(h) \/ RecomputeWorkerRating(h)
             \/ Rollback(h) \/ UpdateMine(h) \/ \E w \in Workers : UpdateWorker(h, w)
      PROVE  UNCHANGED <<rows, averages>>
  BY <1>9 DEF WriteReview, RecomputeSalonRating, RecomputeWorkerRating, Rollback, UpdateMine,
              UpdateWorker
<1> QED BY <1>4, <1>5, <1>6, <1>7, <1>8, <1>9 DEF Next

\* However reviews, edits, withdrawals and moderations run into one another, the averages of the
\* salon and of every worker stay those of the published rows, unless an owner saves one read
\* before; and the next commit that counts for the row makes it right again.
THEOREM AveragesStay == Spec => AveragesKept
<1>1. IInv /\ [Next]_vars => [AveragesFollow]_vars
  BY StepFollows
<1> QED BY <1>1, Invariant, PTL DEF Spec, AveragesKept

\* The order salon, worker keeps any two transactions from waiting for each other, but for two
\* that both insert a review.
THEOREM NoOtherDeadlock == Spec => []OnlyNewReviewsCollide
<1>1. OnlyNewReviewsCollide
  BY DEF OnlyNewReviewsCollide, WaitsFor, RatesNext, At, InTransaction, SalonTaken, SalonHeldBy
<1> QED BY <1>1, PTL

=============================================================================
