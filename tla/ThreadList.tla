----------------------------- MODULE ThreadList -----------------------------
(***************************************************************************)
(* The list of a user's threads: keyset pages over rows that change while  *)
(* a client goes from page to page, and the cache in front of them.        *)
(*                                                                         *)
(* The lists for administrators (threads, reindex jobs) are cut the same   *)
(* way and are not cached: their clients miss and store nothing.  Threads  *)
(* are numbers, in the order of their ids.                                 *)
(***************************************************************************)
EXTENDS Integers, Sequences, FiniteSets, FiniteSetsExt, SequencesExt

CONSTANTS
    Threads,      \* a set of numbers
    PageSize,     \* the limit of the requests
    Clients,      \* clients that list the threads of one user
    MaxChanges    \* bound: changes of rows

ASSUME ListAssumption ==
    /\ Threads \subseteq Nat \ {0} /\ IsFiniteSet(Threads) /\ PageSize \in Nat \ {0}
    /\ MaxChanges \in Nat

VARIABLES
    stamp,       \* updated_at of each row, 0 without a row
    clock,       \* the time now() gives
    deleting,    \* rows with status deleting
    clearing,    \* handlers that have changed a row and not yet cleared the cache
    cache,       \* the page stored under each key
    client,      \* what each client does
    changes      \* how much of the bound is spent

vars == <<stamp, clock, deleting, clearing, cache, client, changes>>

-----------------------------------------------------------------------------
Rows    == {t \in Threads : stamp[t] > 0}
Stamps  == 0 .. MaxChanges + 1
Top    == 0                    \* no cursor
Cursors == Threads \cup {Top}  \* the keys of one user and limit differ in this

\* A page, with the threads that have changed since it was read (history).
Page    == [items : Seq(Threads) \cup {<<Top>>}, changed : SUBSET Threads]
NoPage  == [items |-> <<Top>>, changed |-> {}]

\* seen and cursors: what the pages so far have shown, and where they began;
\* disturbed: the threads that have changed since (history).
Client  == [pc : {"idle", "lookup", "read", "rows", "reply", "done"},
            before : Cursors, at : Stamps, page : Page,
            seen : Seq(Threads), cursors : SUBSET Threads,
            disturbed : SUBSET Threads]
EmptyPage  == [items |-> <<>>, changed |-> {}]
IdleClient == [pc |-> "idle", before |-> Top, at |-> 0, page |-> EmptyPage,
               seen |-> <<>>, cursors |-> {}, disturbed |-> {}]

\* Slip: rows of the same time are left out.
OlderStrictly(t, at, before) == stamp[t] < at

Older(t, at, before) == stamp[t] < at \/ (stamp[t] = at /\ t < before)

Newer(s, t) == stamp[s] > stamp[t] \/ (stamp[s] = stamp[t] /\ s > t)

\* The i-th of the rows, newest first, ids breaking ties.
Nth(rows, i) == CHOOSE t \in rows : Cardinality({s \in rows : Newer(s, t)}) = i - 1

\* Slip: the query has no LIMIT.
NewestAll(rows) == [i \in 1 .. Cardinality(rows) |-> Nth(rows, i)]

\* The first PageSize of the rows.
Newest(rows) == [i \in 1 .. Min({PageSize, Cardinality(rows)}) |-> Nth(rows, i)]

Init ==
    /\ stamp \in [Threads -> 0 .. 1] /\ clock = 1
    /\ deleting = {} /\ clearing = {}
    /\ cache = [k \in Cursors |-> NoPage]
    /\ client = [c \in Clients |-> IdleClient]
    /\ changes = 0

-----------------------------------------------------------------------------
(* The rows change                                                         *)

\* Every statement sets updated_at; two may come in the same microsecond.  What
\* was read before is noted to be out of date for t (history).
Change(t, exists) ==
    /\ changes < MaxChanges /\ changes' = changes + 1
    /\ clock' \in {clock, clock + 1}
    /\ stamp' = [stamp EXCEPT ![t] = IF exists THEN clock' ELSE 0]
    /\ cache' = [k \in Cursors |-> IF cache[k] = NoPage THEN NoPage
                                   ELSE [cache[k] EXCEPT !.changed = @ \cup {t}]]
    /\ client' = [c \in Clients |->
          IF client[c].pc = "idle" THEN client[c]
          ELSE [client[c] EXCEPT !.disturbed = @ \cup {t},
                                 !.page.changed = @ \cup {t}]]

\* POST /threads
Create(t) ==
    /\ t \notin Rows /\ t \notin deleting /\ Change(t, TRUE)
    /\ clearing' = clearing \cup {[row |-> t, for |-> "list"]}
    /\ UNCHANGED deleting

\* A run claims the thread, counts an attempt, sets it idle, or touches it.
Touch(t) ==
    /\ t \in Rows /\ Change(t, TRUE)
    /\ UNCHANGED <<deleting, clearing>>

SetTitle(t) ==
    /\ t \in Rows /\ Change(t, TRUE)
    /\ clearing' = clearing \cup {[row |-> t, for |-> "title"]}
    /\ UNCHANGED deleting

\* DELETE /threads/{id}: the row stays in the list until the task removes it.
Delete(t) ==
    /\ t \in Rows \ deleting /\ Change(t, TRUE)
    /\ deleting' = deleting \cup {t}
    /\ clearing' = clearing \cup {[row |-> t, for |-> "list"]}

RemoveRow(t) ==
    /\ t \in Rows \cap deleting /\ Change(t, FALSE)
    /\ UNCHANGED <<deleting, clearing>>

-----------------------------------------------------------------------------
(* The cache                                                               *)

\* fastapi-cache2 puts its own prefix before the namespace, and lives in the
\* logical database 1.  ValkeyService, which has to clear it, is connected to
\* the default one and looks for keys that begin with the namespace, or, for a
\* title, without it.
StoredIn   == 1
ServiceDb  == 0
StoredAs   == <<"fastapi-cache", "threads-list", "threads">>
Pattern(h) == IF h.for = "list" THEN <<"threads-list", "threads">> ELSE <<"threads">>

Clear(h) ==
    /\ h \in clearing /\ clearing' = clearing \ {h}
    /\ cache' = IF ServiceDb = StoredIn /\ Pattern(h) = StoredAs
                THEN [k \in Cursors |-> NoPage] ELSE cache
    /\ UNCHANGED <<stamp, clock, deleting, client, changes>>

\* Slip: pages are stored without a time to live.
ExpireNever(k) == FALSE

Expire(k) ==
    /\ cache[k] # NoPage /\ cache' = [cache EXCEPT ![k] = NoPage]
    /\ UNCHANGED <<stamp, clock, deleting, clearing, client, changes>>


-----------------------------------------------------------------------------
(* GET /threads, page after page                                           *)

SetClient(c, record) == client' = [client EXCEPT ![c] = record]

\* There is a next page if this one is full.
Receive(c, page) ==
    LET full == Len(page.items) = PageSize
    IN SetClient(c, [client[c] EXCEPT
                 !.pc = IF full THEN "lookup" ELSE "done",
                 !.before = IF full THEN Last(page.items) ELSE Top,
                 !.seen = @ \o page.items,
                 !.cursors = IF full THEN @ \cup {Last(page.items)} ELSE @,
                 !.disturbed = @ \cup page.changed,
                 !.page = EmptyPage, !.at = 0])

Open(c) ==
    /\ client[c].pc \in {"idle", "done"}
    /\ SetClient(c, [IdleClient EXCEPT !.pc = "lookup"])
    /\ UNCHANGED <<stamp, clock, deleting, clearing, cache, changes>>

Hit(c) ==
    /\ client[c].pc = "lookup" /\ cache[client[c].before] # NoPage
    /\ Receive(c, cache[client[c].before])
    /\ UNCHANGED <<stamp, clock, deleting, clearing, cache, changes>>

\* A lookup that fails counts as a page that has expired.
Miss(c) ==
    /\ client[c].pc = "lookup" /\ cache[client[c].before] = NoPage
    /\ SetClient(c, [client[c] EXCEPT !.pc = "read", !.page = EmptyPage])
    /\ UNCHANGED <<stamp, clock, deleting, clearing, cache, changes>>

\* The row of the cursor is read by a statement of its own.
ReadCursor(c) ==
    LET before == client[c].before
    IN /\ client[c].pc = "read"
       /\ SetClient(c, [client[c] EXCEPT
             !.pc = IF before \in Rows \cup {Top} THEN "rows" ELSE "reply",
             !.at = IF before = Top THEN 0 ELSE stamp[before]])
       /\ UNCHANGED <<stamp, clock, deleting, clearing, cache, changes>>

ReadRows(c) ==
    LET before == client[c].before
        rows   == {t \in Rows : before = Top \/ Older(t, client[c].at, before)}
    IN /\ client[c].pc = "rows"
       /\ SetClient(c, [client[c] EXCEPT !.pc = "reply", !.page.items = Newest(rows)])
       /\ UNCHANGED <<stamp, clock, deleting, clearing, cache, changes>>

\* The page is stored, unless Valkey cannot be reached, and sent.
Reply(c) ==
    /\ client[c].pc = "reply"
    /\ \/ UNCHANGED cache
       \/ cache' = [cache EXCEPT ![client[c].before] = client[c].page]
    /\ Receive(c, client[c].page)
    /\ UNCHANGED <<stamp, clock, deleting, clearing, changes>>

ClientStep(c) == Hit(c) \/ Miss(c) \/ ReadCursor(c) \/ ReadRows(c) \/ Reply(c)

-----------------------------------------------------------------------------
Next == \/ \E t \in Threads : Create(t) \/ Touch(t) \/ SetTitle(t) \/ Delete(t) \/ RemoveRow(t)
        \/ \E h \in clearing : Clear(h)
        \/ \E k \in Cursors : Expire(k)
        \/ \E c \in Clients : Open(c) \/ ClientStep(c)

\* A stored page expires, and a request runs to its end.
Fairness == /\ \A k \in Cursors : WF_vars(Expire(k))
            /\ \A c \in Clients : WF_vars(ClientStep(c))

Spec == Init /\ [][Next]_vars /\ Fairness

-----------------------------------------------------------------------------
(* Properties                                                              *)

TypeOK ==
    /\ stamp \in [Threads -> Stamps] /\ clock \in Stamps
    /\ deleting \in SUBSET Threads
    /\ clearing \in SUBSET [row : Threads, for : {"list", "title"}]
    /\ cache \in [Cursors -> Page] /\ client \in [Clients -> Client]
    /\ changes \in 0 .. MaxChanges
    /\ \A c \in Clients : Len(client[c].page.items) <= PageSize

Times(t, s) == Cardinality({i \in DOMAIN s : s[i] = t})

(* A client that has followed the cursors to the end has been shown every   *)
(* row that nobody changed in the meantime, and each of them once: though   *)
(* other rows were created, moved to the top or removed under it, though    *)
(* its pages may come from the cache and be of different ages, and though   *)
(* several rows have the same time.  Only a change of a row that served as  *)
(* a cursor spoils this.                                                    *)
WalkShowsAllOnce ==
    \A c \in Clients :
        client[c].pc = "done" /\ client[c].cursors \cap client[c].disturbed = {}
        => \A t \in Rows \ client[c].disturbed : Times(t, client[c].seen) = 1

Current(k) ==
    cache[k].items = IF k \in Rows
                     THEN Newest({t \in Rows : Older(t, stamp[k], k)})
                     ELSE IF k = Top THEN Newest(Rows) ELSE <<>>

(* When the rows no longer change, the cache comes to hold nothing but      *)
(* current pages, although nothing clears it and a slow request may store   *)
(* a page it read long ago: every page has a time to live.                  *)
ListsCatchUp == <>[](\A k \in Cursors : cache[k] # NoPage => Current(k))

-----------------------------------------------------------------------------
(* What the sources say of this component and the code does not do.        *)

(* "Any mutation (create, delete) on the user's threads invalidates the     *)
(* entire cached set for that user": when the handler has cleared the cache *)
(* no page in it is older than its change.                                  *)
MutationClearsPages ==
    [][\A h \in clearing : h.for = "list" /\ h \notin clearing'
           => \A k \in Cursors : h.row \notin cache'[k].changed]_vars
=============================================================================
