---------------------------- MODULE HandlesProofs ----------------------------
(***************************************************************************)
(* Proofs about Handles for any number of salons, names and requests.       *)
(***************************************************************************)
EXTENDS Handles, TLAPS

\* What makeSlug gives salons is a handle each of its own; None is no salon.
FirstNamesDiffer ==
    /\ FirstName \in [Salons -> Names]
    /\ \A r, s \in Salons : FirstName[r] = FirstName[s] => r = s
    /\ None \notin Salons

\* The request h takes the step from local[h] to t.
LEMMA GotoType ==
    ASSUME TypeOK, NEW h \in Handlers, NEW t \in Tasks \cup {Idle}, Goto(h, t)
    PROVE  /\ local' \in [Handlers -> Tasks \cup {Idle}]
           /\ local'[h] = t
           /\ \A g \in Handlers \ {h} : local'[g] = local[g]
BY DEF TypeOK, Goto

\* A request at work holds a task, whose names are names.
LEMMA TaskHeld ==
    ASSUME TypeOK, NEW h \in Handlers, local[h] # Idle
    PROVE  /\ local[h] \in Tasks
           /\ local[h].salon \in Salons /\ local[h].from \in Names /\ local[h].to \in Names
BY DEF TypeOK, Tasks

\* What Task makes is a task, at the step it names.
LEMMA TaskType ==
    ASSUME TypeOK, NEW pc \in {"read", "edit"}, NEW s \in Salons, NEW n \in Names,
           NEW asAdmin \in BOOLEAN
    PROVE  Task(pc, s, n, asAdmin) \in Tasks /\ Task(pc, s, n, asAdmin).pc = pc
<1>1. slug[s] \in Names
  BY DEF TypeOK
<1>2. Task(pc, s, n, asAdmin) \in Tasks
  BY <1>1 DEF Task, Tasks
<1> QED BY <1>2 DEF Task

-----------------------------------------------------------------------------
(* Every action keeps the invariant.                                        *)

\* A request that begins or ends without writing keeps what the others hold.
LEMMA OthersKeep ==
    ASSUME IInv, NEW h \in Handlers, NEW t \in Tasks \cup {Idle}, Goto(h, t),
           t # Idle => t.pc # "updated", UNCHANGED <<slug, released>>
    PROVE  IInv'
<1>1. /\ local' \in [Handlers -> Tasks \cup {Idle}]
      /\ local'[h] = t
      /\ \A g \in Handlers \ {h} : local'[g] = local[g]
  BY GotoType DEF IInv
<1>2. TypeOK'
  BY <1>1 DEF IInv, TypeOK
<1>3. \A g \in Handlers : At(g, "updated")' => g # h /\ At(g, "updated") /\ local'[g] = local[g]
  BY <1>1 DEF At
<1>4. RenameHeld'
  BY <1>3 DEF IInv, RenameHeld, Live
<1> QED BY <1>2, <1>4 DEF IInv, SlugsUnique

LEMMA UpdateHandleKeeps ==
    ASSUME IInv, NEW h \in Handlers, NEW s \in Salons, NEW n \in Names, NEW asAdmin \in BOOLEAN,
           UpdateHandle(h, s, n, asAdmin)
    PROVE  IInv'
<1> DEFINE t == Task("read", s, n, asAdmin)
<1>1. t \in Tasks /\ t.pc # "updated"
  BY TaskType DEF IInv
<1>2. Goto(h, t) /\ UNCHANGED <<slug, released>>
  BY DEF UpdateHandle
<1> HIDE DEF t
<1> QED BY <1>1, <1>2, OthersKeep

LEMMA UpdateMineKeeps ==
    ASSUME IInv, NEW h \in Handlers, NEW s \in Salons, UpdateMine(h, s) PROVE IInv'
<1> DEFINE t == Task("edit", s, slug[s], FALSE)
<1>1. t \in Tasks /\ t.pc # "updated"
  BY TaskType DEF IInv, TypeOK
<1>2. Goto(h, t) /\ UNCHANGED <<slug, released>>
  BY DEF UpdateMine
<1> HIDE DEF t
<1> QED BY <1>1, <1>2, OthersKeep

LEMMA RollbackKeeps == ASSUME IInv, NEW h \in Handlers, Rollback(h) PROVE IInv'
BY OthersKeep DEF Rollback

LEMMA WriteSlugKeeps == ASSUME IInv, NEW h \in Handlers, WriteSlug(h) PROVE IInv'
<1> DEFINE t == [local[h] EXCEPT !.pc = "updated"]
<1>1. /\ local[h] \in Tasks
      /\ local[h].to \in Names
  BY TaskHeld DEF WriteSlug, At, IInv
<1>2. /\ t \in Tasks
      /\ t.salon = local[h].salon /\ t.from = local[h].from /\ t.to = local[h].to
  BY <1>1 DEF Tasks
<1>3. Goto(h, t) /\ UNCHANGED <<slug, released>>
  BY DEF WriteSlug
<1> HIDE DEF t
<1>4. /\ local' \in [Handlers -> Tasks \cup {Idle}]
      /\ local'[h] = t
      /\ \A g \in Handlers \ {h} : local'[g] = local[g]
  BY <1>2, <1>3, GotoType DEF IInv
<1>5. TypeOK'
  BY <1>3, <1>4 DEF IInv, TypeOK
<1>6. slug[t.salon] = t.from /\ ~Live(t.to)
  BY <1>2 DEF WriteSlug
<1>7. \A g \in Handlers \ {h} : At(g, "updated") => local[g].salon # t.salon /\ local[g].to # t.to
  BY <1>2 DEF WriteSlug, RowFree, EntryFree
<1>8. \A g \in Handlers \ {h} : At(g, "updated")' => At(g, "updated")
  BY <1>4 DEF At
<1>9. RenameHeld'
  <2> SUFFICES ASSUME NEW g \in Handlers, At(g, "updated")'
               PROVE  /\ slug[local'[g].salon] = local'[g].from
                      /\ ~Live(local'[g].to)
                      /\ \A k \in Handlers : At(k, "updated")' /\ k # g =>
                            local'[k].salon # local'[g].salon /\ local'[k].to # local'[g].to
    BY <1>3 DEF RenameHeld, Live
  <2>1. CASE g = h
    BY <2>1, <1>4, <1>6, <1>7, <1>8
  <2>2. CASE g # h
    BY <2>2, <1>4, <1>7, <1>8 DEF IInv, RenameHeld
  <2> QED BY <2>1, <2>2
<1> QED BY <1>3, <1>5, <1>9 DEF IInv, SlugsUnique

\* One salon's handle changes to a name no other salon has and no rename under way is to take,
\* and the salon is under no other rename.
LEMMA SlugMoves ==
    ASSUME IInv, NEW h \in Handlers, NEW s \in Salons, NEW n \in Names,
           slug' = [slug EXCEPT ![s] = n], Goto(h, Idle),
           \A r \in Salons \ {s} : slug[r] # n,
           \A g \in Handlers \ {h} : At(g, "updated") => local[g].salon # s /\ local[g].to # n,
           released' \in [Names -> Salons \cup {None}]
    PROVE  IInv'
<1>1. /\ local' \in [Handlers -> Tasks \cup {Idle}]
      /\ local'[h] = Idle
      /\ \A g \in Handlers \ {h} : local'[g] = local[g]
  BY GotoType DEF IInv
<1>2. slug' \in [Salons -> Names] /\ slug'[s] = n /\ \A r \in Salons \ {s} : slug'[r] = slug[r]
  BY DEF IInv, TypeOK
<1>3. TypeOK' /\ SlugsUnique'
  BY <1>1, <1>2 DEF IInv, TypeOK, SlugsUnique
<1>4. \A g \in Handlers : At(g, "updated")' => g # h /\ At(g, "updated") /\ local'[g] = local[g]
  BY <1>1 DEF At
<1>5. RenameHeld'
  <2> SUFFICES ASSUME NEW g \in Handlers, At(g, "updated")'
               PROVE  /\ slug'[local[g].salon] = local[g].from
                      /\ \A r \in Salons : slug'[r] # local[g].to
                      /\ \A k \in Handlers : At(k, "updated")' /\ k # g =>
                            local[k].salon # local[g].salon /\ local[k].to # local[g].to
    BY <1>4 DEF RenameHeld, Live
  <2>1. local[g].salon \in Salons
    BY <1>4, TaskHeld DEF IInv, At
  <2> QED BY <1>2, <1>4, <2>1 DEF IInv, RenameHeld, Live
<1> QED BY <1>3, <1>5 DEF IInv

LEMMA CommitRenameKeeps == ASSUME IInv, NEW h \in Handlers, CommitRename(h) PROVE IInv'
<1> DEFINE s == local[h].salon
           n == local[h].to
<1>1. At(h, "updated") /\ s \in Salons /\ n \in Names /\ local[h].from \in Names
  BY TaskHeld DEF CommitRename, At, IInv
<1>2. /\ slug' = [slug EXCEPT ![s] = n] /\ Goto(h, Idle)
      /\ released' = [released EXCEPT ![n] = None, ![local[h].from] = s]
  BY DEF CommitRename
<1>3. released' \in [Names -> Salons \cup {None}]
  BY <1>1, <1>2 DEF IInv, TypeOK
<1>4. /\ \A r \in Salons \ {s} : slug[r] # n
      /\ \A g \in Handlers \ {h} : At(g, "updated") => local[g].salon # s /\ local[g].to # n
  BY <1>1 DEF IInv, RenameHeld, Live
<1> HIDE DEF s, n
<1> QED BY <1>1, <1>2, <1>3, <1>4, SlugMoves

LEMMA SaveEditKeeps == ASSUME IInv, NEW h \in Handlers, SaveEdit(h) PROVE IInv'
<1> DEFINE s == local[h].salon
           n == local[h].from
<1>1. s \in Salons /\ n \in Names
  BY TaskHeld DEF SaveEdit, At, IInv
<1>2. slug' = [slug EXCEPT ![s] = n] /\ Goto(h, Idle) /\ released' = released
  BY DEF SaveEdit
<1>3. /\ \A r \in Salons \ {s} : slug[r] # n
      /\ \A g \in Handlers \ {h} : At(g, "updated") => local[g].salon # s /\ local[g].to # n
  BY DEF SaveEdit, RowFree, EntryFree
<1>4. released' \in [Names -> Salons \cup {None}]
  BY <1>2 DEF IInv, TypeOK
<1> HIDE DEF s, n
<1> QED BY <1>1, <1>2, <1>3, <1>4, SlugMoves

-----------------------------------------------------------------------------

LEMMA InitHolds == ASSUME FirstNamesDiffer PROVE Init => IInv
BY DEF FirstNamesDiffer, Init, IInv, TypeOK, SlugsUnique, RenameHeld, At

LEMMA NextKeeps == IInv /\ [Next]_vars => IInv'
<1> SUFFICES ASSUME IInv, [Next]_vars PROVE IInv'
  OBVIOUS
<1>1. ASSUME NEW h \in Handlers, NEW s \in Salons,
             \/ \E n \in Names, asAdmin \in BOOLEAN : UpdateHandle(h, s, n, asAdmin)
             \/ UpdateMine(h, s)
      PROVE  IInv'
  BY <1>1, UpdateHandleKeeps, UpdateMineKeeps
<1>2. ASSUME NEW h \in Handlers, WriteSlug(h) \/ CommitRename(h) \/ SaveEdit(h) \/ Rollback(h)
      PROVE  IInv'
  BY <1>2, WriteSlugKeeps, CommitRenameKeeps, SaveEditKeeps, RollbackKeeps
<1>3. CASE UNCHANGED vars
  BY <1>3 DEF IInv, TypeOK, SlugsUnique, RenameHeld, Live, At, vars
<1> QED BY <1>1, <1>2, <1>3 DEF Next

\* The inductive invariant: no two salons have one handle, and a rename that has written its
\* row and not committed is the only one of its salon and of the handle it takes.
THEOREM Invariant == ASSUME FirstNamesDiffer PROVE Spec => []IInv
<1>1. Init => IInv
  BY InitHolds
<1> QED BY <1>1, NextKeeps, PTL DEF Spec

-----------------------------------------------------------------------------
(* No step breaks a link.                                                   *)

LEMMA CommitRenameLinks ==
    ASSUME FirstNamesDiffer, IInv, NEW h \in Handlers, CommitRename(h),
           NEW s \in Salons, NEW n \in Names, LeadsTo(n, s)
    PROVE  LeadsTo(n, s)' \/ AdminTakes(n)
<1> DEFINE t == local[h]
<1>1. /\ t.salon \in Salons /\ t.from \in Names /\ t.to \in Names
      /\ slug[t.salon] = t.from /\ \A r \in Salons : slug[r] # t.to
  BY TaskHeld DEF CommitRename, At, IInv, RenameHeld, Live
<1>2. /\ slug'[t.salon] = t.to
      /\ \A r \in Salons \ {t.salon} : slug'[r] = slug[r]
  BY <1>1 DEF CommitRename, IInv, TypeOK
<1>3. /\ t.from # t.to
      /\ released'[t.from] = t.salon
      /\ \A m \in Names \ {t.from, t.to} : released'[m] = released[m]
  BY <1>1 DEF CommitRename, IInv, TypeOK
<1>4. CASE slug[s] = n /\ s # t.salon
  BY <1>2, <1>4 DEF LeadsTo
<1>5. CASE slug[s] = n /\ s = t.salon
  <2>1. \A r \in Salons : slug'[r] # n
    BY <1>1, <1>2, <1>3, <1>5 DEF IInv, SlugsUnique
  <2> QED BY <1>1, <1>3, <1>5, <2>1 DEF LeadsTo, Live
<1>6. CASE ~Live(n) /\ released[n] = s /\ n # t.to
  <2>1. n # t.from /\ \A r \in Salons : slug'[r] # n
    BY <1>1, <1>2, <1>6 DEF Live
  <2> QED BY <1>3, <1>6, <2>1 DEF LeadsTo, Live
<1>7. CASE released[n] = s /\ n = t.to
  <2>1. t.asAdmin \/ s = t.salon
    BY <1>7 DEF CommitRename, MayTake, FirstNamesDiffer
  <2>2. t.asAdmin => AdminTakes(n)
    BY <1>7 DEF AdminTakes
  <2> QED BY <1>2, <1>7, <2>1, <2>2 DEF LeadsTo
<1> QED BY <1>4, <1>5, <1>6, <1>7 DEF LeadsTo

LEMMA SaveEditLinks ==
    ASSUME IInv, NEW h \in Handlers, SaveEdit(h), NEW s \in Salons, NEW n \in Names, LeadsTo(n, s)
    PROVE  LeadsTo(n, s)' \/ StaleEdit(n)
<1> DEFINE t == local[h]
<1>1. t.salon \in Salons
  BY TaskHeld DEF SaveEdit, At, IInv
<1>2. /\ slug'[t.salon] = t.from /\ released' = released
      /\ \A r \in Salons \ {t.salon} : slug'[r] = slug[r]
  BY <1>1 DEF SaveEdit, IInv, TypeOK
<1>3. CASE slug[t.salon] = t.from
  BY <1>2, <1>3 DEF LeadsTo, Live
<1>4. CASE slug[t.salon] # t.from /\ n \in {slug[t.salon], t.from}
  BY <1>4 DEF StaleEdit
<1>5. CASE n \notin {slug[t.salon], t.from}
  BY <1>1, <1>2, <1>5 DEF LeadsTo, Live
<1> QED BY <1>3, <1>4, <1>5

LEMMA StepLinks ==
    ASSUME FirstNamesDiffer, IInv, [Next]_vars, NEW s \in Salons, NEW n \in Names, LeadsTo(n, s)
    PROVE  LeadsTo(n, s)' \/ AdminTakes(n) \/ StaleEdit(n)
<1>1. CASE UNCHANGED <<slug, released>>
  BY <1>1 DEF LeadsTo, Live
<1>2. \/ UNCHANGED <<slug, released>>
      \/ \E h \in Handlers : CommitRename(h) \/ SaveEdit(h)
  BY DEF Next, vars, UpdateHandle, UpdateMine, WriteSlug, Rollback
<1> QED BY <1>1, <1>2, CommitRenameLinks, SaveEditLinks

\* A printed link leads to its salon for ever, through any renames of any salons, unless an
\* admin reassigns it or an edit that began before a rename undoes that rename.
THEOREM LinksLead == ASSUME FirstNamesDiffer PROVE Spec => LinksKeepLeading
<1>1. IInv /\ [Next]_vars => [LinksLeadOn]_vars
  BY StepLinks DEF LinksLeadOn
<1> QED BY <1>1, Invariant, PTL DEF Spec, LinksKeepLeading

=============================================================================
