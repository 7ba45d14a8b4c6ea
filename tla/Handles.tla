------------------------------- MODULE Handles --------------------------------
(***************************************************************************)
(* The public handles of salons.  A salon's handle is printed on signs, so  *)
(* a rename keeps the old one: it redirects to the salon for ever, and no   *)
(* other owner may take it.  The transaction of a rename writes the salon's *)
(* row first; whoever wants the handle it gives up waits on the unique      *)
(* index of salons.slug until it commits, and only then reads who has it    *)
(* reserved.  An owner's edit of other columns saves the row as it read it. *)
(***************************************************************************)
CONSTANTS Salons, Names, Handlers,
          FirstName,  \* what makeSlug gave each salon; its random suffix is a new one
          None

VARIABLES
    slug,      \* salons.slug
    released,  \* salon_slug_history: the salon that released a handle, None without a row
    local      \* what each request holds

vars == <<slug, released, local>>

Idle == [pc |-> "idle"]
\* "read": the salon is read; "updated": its row is written and not committed; "edit": an
\* edit of other columns has read it.
Tasks == [pc : {"read", "updated", "edit"}, salon : Salons, from : Names, to : Names,
          asAdmin : BOOLEAN]
Goto(h, task) == local' = [local EXCEPT ![h] = task]
At(h, pc) == local[h] # Idle /\ local[h].pc = pc
Task(pc, s, n, asAdmin) ==
    [pc |-> pc, salon |-> s, from |-> slug[s], to |-> n, asAdmin |-> asAdmin]

TypeOK ==
    /\ slug \in [Salons -> Names]
    /\ released \in [Names -> Salons \cup {None}]
    /\ local \in [Handlers -> Tasks \cup {Idle}]

Init ==
    /\ slug = FirstName
    /\ released = [n \in Names |-> None]
    /\ local = [h \in Handlers |-> Idle]

Live(n) == \E s \in Salons : slug[s] = n

-----------------------------------------------------------------------------

\* updateHandle up to its transaction; the present handle is no rename.
UpdateHandle(h, s, n, asAdmin) ==
    /\ local[h] = Idle
    /\ slug[s] # n
    /\ Goto(h, Task("read", s, n, asAdmin))
    /\ UNCHANGED <<slug, released>>

\* The row, and the entries of the index, that another rename has written and not committed.
RowFree(h) == \A g \in Handlers \ {h} : At(g, "updated") => local[g].salon # local[h].salon
EntryFree(h, n) == \A g \in Handlers \ {h} : At(g, "updated") => n \notin {local[g].from, local[g].to}

\* UPDATE ... WHERE slug = previousSlug.
WriteSlugBlind(h) ==   \* mutant: UPDATE ... WHERE id only
    /\ At(h, "read")
    /\ RowFree(h) /\ EntryFree(h, local[h].to) /\ ~Live(local[h].to)
    /\ Goto(h, [local[h] EXCEPT !.pc = "updated"])
    /\ UNCHANGED <<slug, released>>
WriteSlug(h) ==
    /\ At(h, "read")
    /\ slug[local[h].salon] = local[h].from
    /\ RowFree(h) /\ EntryFree(h, local[h].to) /\ ~Live(local[h].to)
    /\ Goto(h, [local[h] EXCEPT !.pc = "updated"])
    /\ UNCHANGED <<slug, released>>

MayTakeAny(t) == TRUE   \* mutant: the reservation is not looked up
MayTake(t) == t.asAdmin \/ released[t.to] \in {None, t.salon}

\* The reservation is read, dropped if the handle is live again, and the old handle recorded,
\* which fails on the primary key if it has a row.
CommitRename(h) ==
    /\ At(h, "updated")
    /\ LET t == local[h]
       IN  /\ MayTake(t)
           /\ released[t.from] = None
           /\ slug' = [slug EXCEPT ![t.salon] = t.to]
           /\ released' = [released EXCEPT ![t.to] = None, ![t.from] = t.salon]
    /\ Goto(h, Idle)

\* updateMine reads the row; its save writes back the handle it read, unless another salon
\* has it by then.
UpdateMine(h, s) ==
    /\ local[h] = Idle
    /\ Goto(h, Task("edit", s, slug[s], FALSE))
    /\ UNCHANGED <<slug, released>>

SaveEdit(h) ==
    /\ At(h, "edit")
    /\ RowFree(h) /\ EntryFree(h, local[h].from)
    /\ \A s \in Salons \ {local[h].salon} : slug[s] # local[h].from
    /\ slug' = [slug EXCEPT ![local[h].salon] = local[h].from]
    /\ Goto(h, Idle)
    /\ UNCHANGED released

\* The transaction rolls back, or the request dies.
Rollback(h) == local[h] # Idle /\ Goto(h, Idle) /\ UNCHANGED <<slug, released>>

Next ==
    \E h \in Handlers :
        \/ \E s \in Salons :
              \/ \E n \in Names, asAdmin \in BOOLEAN : UpdateHandle(h, s, n, asAdmin)
              \/ UpdateMine(h, s)
        \/ WriteSlug(h)
        \/ CommitRename(h)
        \/ SaveEdit(h)
        \/ Rollback(h)

Spec == Init /\ [][Next]_vars

-----------------------------------------------------------------------------

\* resolveCanonicalSlug: the link n leads to the salon s.
LeadsTo(n, s) == slug[s] = n \/ (~Live(n) /\ released[n] = s)

AdminTakes(n) == \E h \in Handlers : CommitRename(h) /\ local[h].asAdmin /\ local[h].to = n
\* An edit that began before the salon was renamed, from n or to n.
StaleEdit(n) ==
    \E h \in Handlers :
        /\ SaveEdit(h)
        /\ slug[local[h].salon] # local[h].from
        /\ n \in {slug[local[h].salon], local[h].from}

LinksLeadOn ==
    \A s \in Salons, n \in Names : LeadsTo(n, s) => LeadsTo(n, s)' \/ AdminTakes(n) \/ StaleEdit(n)

\* A link that once led to a salon always will, under whatever handle the salon goes by then:
\* no rename loses an old handle or takes that of another salon, however renames of one salon
\* and of several run into one another.  Only an admin may reassign it, and an edit that began
\* before a rename undoes it and records nothing.
LinksKeepLeading == [][LinksLeadOn]_vars

-----------------------------------------------------------------------------
(* The inductive invariant: a transaction between its UPDATE and its commit *)
(* holds the row and both entries of the index.                             *)

SlugsUnique == \A r, s \in Salons : slug[r] = slug[s] => r = s

RenameHeld ==
    \A h \in Handlers : At(h, "updated") =>
        /\ slug[local[h].salon] = local[h].from
        /\ ~Live(local[h].to)
        /\ \A g \in Handlers : At(g, "updated") /\ g # h =>
              local[g].salon # local[h].salon /\ local[g].to # local[h].to

IInv == TypeOK /\ SlugsUnique /\ RenameHeld

=============================================================================
