------------------------------- MODULE Reviews -------------------------------
(***************************************************************************)
(* The reviews of one salon, the ratings of its workers that come with      *)
(* them, and the averages both feed.  A customer writes, edits and          *)
(* withdraws a review, an admin hides and republishes it; each of these     *)
(* reads the rows first, without a lock, and then recomputes the averages   *)
(* in a transaction that holds the row of the salon, then of the worker.    *)
(* The owner edits other columns of the same two rows: such an edit saves   *)
(* the row as it read it, the average included.  An average and its count   *)
(* are kept as the set of the ratings they were computed from.              *)
(***************************************************************************)
EXTENDS Integers

CONSTANTS Bookings,   \* completed bookings of the salon, none of them manual
          Handlers,
          Workers,
          WorkerOf,   \* bookings.worker_id; no member of Workers when NULL
          MaxStars

Stars == 1..MaxStars
Served(b) == WorkerOf[b] \in Workers

VARIABLES
    review,      \* reviews.status, "none" before the row exists
    stars,       \* reviews.rating, 0 before the row exists
    rating,      \* worker_ratings.status
    score,       \* worker_ratings.rating
    average,     \* salons.rating_avg, rating_count
    averageOf,   \* workers.rating_avg, rating_count
    local        \* what each request holds

rows == <<review, stars, rating, score>>
averages == <<average, averageOf>>
vars == <<rows, averages, local>>

ReviewStatus == {"none", "published", "rejected", "withdrawn"}
RatingStatus == {"none", "published", "rejected"}

\* "decided": rows read, nothing locked; "written": the review's row is written; "salon",
\* "worker": that row locked, its average computed.
Steps == {"decided", "written", "salon", "worker"}
Idle == [pc |-> "idle"]
\* What a task writes; "keep" and 0 leave a column as it is.
Writes == [status : ReviewStatus \cup {"keep"}, stars : Stars \cup {0},
           rating : RatingStatus \cup {"keep"}, score : Stars \cup {0}]
Averages == SUBSET (Bookings \X (Stars \cup {0}))
\* The row of a salon or worker as an edit of other columns has read it.
Edits == [pc : {"salon_read"}, average : Averages]
             \cup [pc : {"worker_read"}, worker : Workers, average : Averages]
Tasks == [pc : Steps, booking : Bookings, write : Writes, isNew : BOOLEAN, ratingOnly : BOOLEAN,
          average : Averages, averageOf : Averages]

Goto(h, task) == local' = [local EXCEPT ![h] = task]
At(h, pc) == local[h].pc = pc

TypeOK ==
    /\ review \in [Bookings -> ReviewStatus]
    /\ stars \in [Bookings -> Stars \cup {0}]
    /\ rating \in [Bookings -> RatingStatus]
    /\ score \in [Bookings -> Stars \cup {0}]
    /\ average \in Averages
    /\ averageOf \in [Workers -> Averages]
    /\ local \in [Handlers -> Tasks \cup Edits \cup {Idle}]

Init ==
    /\ review = [b \in Bookings |-> "none"]
    /\ stars = [b \in Bookings |-> 0]
    /\ rating = [b \in Bookings |-> "none"]
    /\ score = [b \in Bookings |-> 0]
    /\ average = {}
    /\ averageOf = [w \in Workers |-> {}]
    /\ local = [h \in Handlers |-> Idle]

-----------------------------------------------------------------------------
(* The requests, up to their transaction.                                   *)

Decide(h, b, write, isNew, ratingOnly) ==
    /\ local[h] = Idle
    /\ Goto(h, [pc |-> "decided", booking |-> b, write |-> write, isNew |-> isNew,
                ratingOnly |-> ratingOnly, average |-> {}, averageOf |-> {}])
    /\ UNCHANGED <<rows, averages>>
Write(status, n, ratingStatus, m) ==
    [status |-> status, stars |-> n, rating |-> ratingStatus, score |-> m]

\* The worker is rated exactly when the booking names one.
Create(h, b, n, m) ==
    /\ review[b] = "none"
    /\ Served(b) <=> m # 0
    /\ Decide(h, b, Write("published", n, IF m = 0 THEN "keep" ELSE "published", m), TRUE, FALSE)

Update(h, b, n, m) ==
    /\ review[b] \notin {"none", "withdrawn"}
    /\ m # 0 => rating[b] # "none"
    /\ Decide(h, b, Write("keep", n, "keep", m), FALSE, FALSE)

Remove(h, b) ==
    /\ review[b] \notin {"none", "withdrawn"}
    /\ Decide(h, b, Write("withdrawn", 0, IF rating[b] = "none" THEN "keep" ELSE "rejected", 0),
              FALSE, FALSE)

Moderate(h, b, status) ==
    /\ review[b] \notin {"none", "withdrawn"}
    /\ Decide(h, b, Write(status, 0, "keep", 0), FALSE, FALSE)

\* The parent review's status is read, not the rating's.
ModerateWorkerRating(h, b, status) ==
    /\ rating[b] # "none" /\ review[b] # "withdrawn"
    /\ Decide(h, b, Write("keep", 0, status, 0), FALSE, TRUE)

-----------------------------------------------------------------------------
(* The transaction: what it wrote is visible to itself only until it commits. *)

StatusOver(old, new) == IF new = "keep" THEN old ELSE new
StarsOver(old, new) == IF new = 0 THEN old ELSE new

After(t, b) == IF b = t.booking THEN StatusOver(review[b], t.write.status) ELSE review[b]
StarsAfter(t, b) == IF b = t.booking THEN StarsOver(stars[b], t.write.stars) ELSE stars[b]
RatingAfter(t, b) == IF b = t.booking THEN StatusOver(rating[b], t.write.rating) ELSE rating[b]
ScoreAfter(t, b) == IF b = t.booking THEN StarsOver(score[b], t.write.score) ELSE score[b]

RatesWorker(t) == t.write.rating # "keep" \/ t.write.score # 0

\* The row of the review, or the entry of UNIQUE (booking_id) that a new one has made.
InTransaction(h) == local[h].pc \in {"written", "salon", "worker"} /\ ~local[h].ratingOnly
ReviewFree(h) == \A g \in Handlers \ {h} : InTransaction(g) => local[g].booking # local[h].booking

\* What keeps others from locking the salon's row: g has it, or g's new review holds the share
\* lock of its foreign key on it.
SalonHeldByAny(g) == InTransaction(g)   \* mutant: an update that checks the foreign key again
SalonHeldBy(g) == InTransaction(g) /\ (local[g].pc = "written" => local[g].isNew)
SalonTaken(g) == InTransaction(g) /\ local[g].pc # "written"

\* A second review of the booking waits for the first and fails on UNIQUE (booking_id).
WriteReview(h) ==
    /\ At(h, "decided") /\ ~local[h].ratingOnly
    /\ local[h].isNew => /\ review[local[h].booking] = "none"
                         /\ \A g \in Handlers \ {h} : ~SalonTaken(g)
    /\ ReviewFree(h)
    /\ Goto(h, [local[h] EXCEPT !.pc = "written"])
    /\ UNCHANGED <<rows, averages>>

SalonFreeUnlocked(h) == TRUE   \* mutant: the aggregate without SELECT ... FOR UPDATE
SalonFree(h) == \A g \in Handlers \ {h} : ~SalonHeldBy(g)
WorkerFree(h, w) ==
    \A g \in Handlers \ {h} : At(g, "worker") => WorkerOf[local[g].booking] # w

\* recomputeSalonRating takes the salon's row and aggregates.
RecomputeSalonRating(h) ==
    /\ At(h, "written")
    /\ SalonFree(h)
    /\ LET t == local[h]
       IN  Goto(h, [t EXCEPT !.pc = "salon",
                  !.average = {<<b, StarsAfter(t, b)>> : b \in {x \in Bookings : After(t, x) = "published"}}])
    /\ UNCHANGED <<rows, averages>>

\* Its turn comes after the salon's; the moderation of a rating has no other.
RatesNext(h) == At(h, "salon") \/ (At(h, "decided") /\ local[h].ratingOnly)

\* The worker's rating is written, and recomputeWorkerRating takes the worker's row.
RecomputeWorkerRating(h) ==
    /\ RatesNext(h)
    /\ LET t == local[h]
           w == WorkerOf[t.booking]
       IN  /\ RatesWorker(t)
           /\ WorkerFree(h, w)
           /\ Goto(h, [t EXCEPT !.pc = "worker",
                  !.averageOf = {<<b, ScoreAfter(t, b)>> :
                      b \in {x \in Bookings : RatingAfter(t, x) = "published" /\ WorkerOf[x] = w}}])
    /\ UNCHANGED <<rows, averages>>

Commit(h) ==
    /\ local[h].pc \in {"salon", "worker"}
    /\ LET t == local[h]
       IN  /\ t.pc = IF RatesWorker(t) THEN "worker" ELSE "salon"
           /\ review' = [b \in Bookings |-> After(t, b)]
           /\ stars' = [b \in Bookings |-> StarsAfter(t, b)]
           /\ rating' = [b \in Bookings |-> RatingAfter(t, b)]
           /\ score' = [b \in Bookings |-> ScoreAfter(t, b)]
           /\ average' = IF t.ratingOnly THEN average ELSE t.average
           /\ averageOf' = [w \in Workers |-> IF RatesWorker(t) /\ WorkerOf[t.booking] = w
                                              THEN t.averageOf ELSE averageOf[w]]
    /\ Goto(h, Idle)

-----------------------------------------------------------------------------
(* The owner's edits of the salon and of a worker.  TypeORM's save reads    *)
(* the row once more and writes back what differs, here in one step.        *)

UpdateMine(h) ==
    /\ local[h] = Idle
    /\ Goto(h, [pc |-> "salon_read", average |-> average])
    /\ UNCHANGED <<rows, averages>>

SaveSalon(h) ==
    /\ At(h, "salon_read")
    /\ \A g \in Handlers : ~SalonTaken(g)
    /\ average' = local[h].average
    /\ Goto(h, Idle)
    /\ UNCHANGED <<rows, averageOf>>

UpdateWorker(h, w) ==
    /\ local[h] = Idle
    /\ Goto(h, [pc |-> "worker_read", worker |-> w, average |-> averageOf[w]])
    /\ UNCHANGED <<rows, averages>>

SaveWorker(h) ==
    /\ At(h, "worker_read")
    /\ WorkerFree(h, local[h].worker)
    /\ averageOf' = [averageOf EXCEPT ![local[h].worker] = local[h].average]
    /\ Goto(h, Idle)
    /\ UNCHANGED <<rows, average>>

\* The transaction fails, or the request dies.
Rollback(h) ==
    /\ local[h] # Idle
    /\ Goto(h, Idle)
    /\ UNCHANGED <<rows, averages>>

Next ==
    \E h \in Handlers :
        \/ \E b \in Bookings :
              \/ \E n \in Stars, m \in Stars \cup {0} : Create(h, b, n, m)
              \/ \E n, m \in Stars \cup {0} : Update(h, b, n, m)
              \/ Remove(h, b)
              \/ \E status \in {"published", "rejected"} :
                    Moderate(h, b, status) \/ ModerateWorkerRating(h, b, status)
        \/ WriteReview(h)
        \/ RecomputeSalonRating(h)
        \/ RecomputeWorkerRating(h)
        \/ Commit(h)
        \/ UpdateMine(h) \/ SaveSalon(h)
        \/ (\E w \in Workers : UpdateWorker(h, w)) \/ SaveWorker(h)
        \/ Rollback(h)

Spec == Init /\ [][Next]_vars

-----------------------------------------------------------------------------

Published == {<<b, stars[b]>> : b \in {x \in Bookings : review[x] = "published"}}
PublishedOf(w) ==
    {<<b, score[b]>> : b \in {x \in Bookings : rating[x] = "published" /\ WorkerOf[x] = w}}

Matches == average = Published
MatchesOf(w) == averageOf[w] = PublishedOf(w)

\* A transaction that has computed the average commits.
Recomputes == \E h \in Handlers : Commit(h) /\ ~local[h].ratingOnly
RecomputesOf(w) ==
    \E h \in Handlers : Commit(h) /\ RatesWorker(local[h]) /\ WorkerOf[local[h].booking] = w

\* An edit that began when the average was another.
StaleSave == \E h \in Handlers : SaveSalon(h) /\ local[h].average # average
StaleSaveOf(w) ==
    \E h \in Handlers : SaveWorker(h) /\ local[h].worker = w /\ local[h].average # averageOf[w]

AveragesFollow ==
    /\ Matches \/ Recomputes => Matches' \/ StaleSave
    /\ \A w \in Workers : MatchesOf(w) \/ RecomputesOf(w) => MatchesOf(w)' \/ StaleSaveOf(w)

\* Whatever reviews, edits, withdrawals and moderations run into one another, the averages of
\* the salon and of every worker stay those of the published rows: none is lost, none is
\* counted twice.  What spoils one is an owner's save begun before the last review; the next
\* review that counts for the row makes it right again.
AveragesKept == [][AveragesFollow]_vars

\* Whom a transaction waits for: for the row of the review, of the salon, of the worker.  (An
\* owner's save waits for a row and holds none, so nobody waits for it.)
WaitsFor(h, g) ==
    /\ g # h
    /\ \/ /\ At(h, "decided") /\ ~local[h].ratingOnly
          /\ \/ InTransaction(g) /\ local[g].booking = local[h].booking
             \/ local[h].isNew /\ SalonTaken(g)
       \/ At(h, "written") /\ SalonHeldBy(g)
       \/ /\ RatesNext(h)
          /\ RatesWorker(local[h])
          /\ At(g, "worker") /\ WorkerOf[local[g].booking] = WorkerOf[local[h].booking]

\* Two transactions queue for the rows of salon and worker, in that order, and never wait for
\* each other; only two new reviews may, since each holds the share lock of its foreign key
\* on the salon that the other wants to itself.
OnlyNewReviewsCollide ==
    \A g, h \in Handlers : WaitsFor(g, h) /\ WaitsFor(h, g) => local[g].isNew /\ local[h].isNew

-----------------------------------------------------------------------------
(* The inductive invariant: an average computed under a row lock is still   *)
(* right when it is written.                                                *)

HoldsSalon(h) == InTransaction(h) /\ local[h].pc # "written"
HoldsWorker(h) == At(h, "worker")

SalonHeld ==
    \A h \in Handlers : HoldsSalon(h) =>
        /\ local[h].average = {<<b, StarsAfter(local[h], b)>> :
                                  b \in {x \in Bookings : After(local[h], x) = "published"}}
        /\ \A g \in Handlers : HoldsSalon(g) => g = h

WorkerHeld ==
    \A h \in Handlers : HoldsWorker(h) =>
        /\ local[h].averageOf =
              {<<b, ScoreAfter(local[h], b)>> :
                  b \in {x \in Bookings : /\ RatingAfter(local[h], x) = "published"
                                          /\ WorkerOf[x] = WorkerOf[local[h].booking]}}
        /\ \A g \in Handlers : HoldsWorker(g) /\ WorkerOf[local[g].booking] = WorkerOf[local[h].booking]
              => g = h

\* A moderation of a rating writes nothing else; no task waits with a lock it does not need.
TasksFit ==
    \A h \in Handlers : local[h].pc \in Steps =>
        /\ local[h].ratingOnly => local[h].write.status = "keep" /\ local[h].write.stars = 0
        /\ local[h].pc = "worker" => RatesWorker(local[h])

IInv ==
    /\ TypeOK
    /\ TasksFit
    /\ SalonHeld
    /\ WorkerHeld

=============================================================================
