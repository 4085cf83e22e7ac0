--------------------------- MODULE PublishedIndex ---------------------------
(***************************************************************************)
(* GET /api/published-services: a client walks through the published        *)
(* services page by page, by a keyset cursor over (first_published_at DESC, *)
(* slug), while owners publish, republish and unpublish.                    *)
(*                                                                         *)
(* first_published_at is the start of the transaction that inserted the     *)
(* row, so a row can appear behind, at or before a cursor already handed    *)
(* out.  The cursor carries the two keys themselves, in full precision; the *)
(* listing without a limit is a page that holds everything.                 *)
(***************************************************************************)
EXTENDS Naturals, FiniteSets

CONSTANTS
  Slugs,      \* of the services, published or not, numbered in their order
  Limits,     \* the page sizes a client asks for
  MaxClock    \* bound: the database's clock

ASSUME IndexAssumption ==
  /\ Slugs \subseteq Nat
  /\ Limits \subseteq Nat \ {0}
  /\ MaxClock \in Nat

VARIABLES
  first,        \* first_published_at of each service, 0 when it has no row
  publishing,   \* publish transactions that have begun: <<service, start>>
  clock,        \* the database's clock
  cursor,       \* the cursor the client holds
  given,        \* history: the services the walk has listed
  twice,        \* history: the ones it has listed more than once
  steady        \* history: the ones published since its first page

indexVars == <<first, publishing, clock, cursor, given, twice, steady>>
rows == <<first, publishing, clock>>
walk == <<cursor, given, twice, steady>>

Cursor == [state : {"start", "next", "end"}, at : Nat, slug : Nat]
NoCursor == [state |-> "start", at |-> 0, slug |-> 0]

Indexed == {s \in Slugs : first[s] # 0}

IndexInit ==
  /\ first = [s \in Slugs |-> 0]
  /\ publishing = {}
  /\ clock = 1
  /\ cursor = NoCursor
  /\ given = {} /\ twice = {} /\ steady = {}

----------------------------------------------------------------------------
(* The owners. *)

Tick ==
  /\ clock < MaxClock
  /\ clock' = clock + 1
  /\ UNCHANGED <<first, publishing, walk>>

UpsertBegin(s) ==
  /\ publishing' = publishing \cup {<<s, clock>>}
  /\ UNCHANGED <<first, clock, walk>>

\* Mutant of FirstPublishedAt: a republish that counts as a first publication.
PublishedAt(s, t) == t

\* The column's default on the insert; ON CONFLICT leaves it alone.
FirstPublishedAt(s, t) == IF first[s] = 0 THEN t ELSE first[s]

\* The upsert commits.
UpsertCommit(s, t) ==
  /\ <<s, t>> \in publishing
  /\ first' = [first EXCEPT ![s] = FirstPublishedAt(s, t)]
  /\ publishing' = publishing \ {<<s, t>>}
  /\ UNCHANGED <<clock, walk>>

UpsertAbort(s, t) ==
  /\ <<s, t>> \in publishing
  /\ publishing' = publishing \ {<<s, t>>}
  /\ UNCHANGED <<first, clock, walk>>

\* Also what deleting the service does to its publication.
Unpublish(s) ==
  /\ s \in Indexed
  /\ first' = [first EXCEPT ![s] = 0]
  /\ steady' = steady \ {s}
  /\ UNCHANGED <<publishing, clock, cursor, given, twice>>

----------------------------------------------------------------------------
(* The client. *)

\* ORDER BY first_published_at DESC, slug.
Precedes(s, t) == \/ first[s] > first[t]
                  \/ first[s] = first[t] /\ s < t

\* Mutant of AfterCursor: the cursor is decoded and not used.
AfterNothing(s) == TRUE

\* The WHERE clause.
AfterCursor(s) == \/ cursor.state = "start"
                  \/ first[s] < cursor.at
                  \/ first[s] = cursor.at /\ s > cursor.slug

Rest == {s \in Indexed : AfterCursor(s)}

\* The history variables after a page.
Give(page) ==
  /\ given' = given \cup page
  /\ twice' = twice \cup (page \cap given)
  /\ steady' = IF cursor.state = "start" THEN Indexed ELSE steady

\* Nothing is left beyond this page: no extra row is read, and no next_cursor
\* is handed out.
LastPage(limit) ==
  /\ cursor.state # "end"
  /\ Cardinality(Rest) <= limit
  /\ Give(Rest)
  /\ cursor' = [NoCursor EXCEPT !.state = "end"]
  /\ UNCHANGED rows

\* A page and one row more: the cursor is made from the last row of the page.
FullPage(limit) ==
  /\ cursor.state # "end"
  /\ Cardinality(Rest) > limit
  /\ \E page \in SUBSET Rest :
       /\ Cardinality(page) = limit
       /\ \A s \in page, t \in Rest \ page : Precedes(s, t)
       /\ Give(page)
       /\ \E last \in page :
            /\ \A s \in page \ {last} : Precedes(s, last)
            /\ cursor' = [state |-> "next", at |-> first[last], slug |-> last]
  /\ UNCHANGED rows

\* The client starts over.
NewWalk ==
  /\ cursor.state = "end"
  /\ cursor' = NoCursor
  /\ given' = {} /\ twice' = {} /\ steady' = {}
  /\ UNCHANGED rows

Page == \E limit \in Limits : LastPage(limit) \/ FullPage(limit)

IndexNext ==
  \/ Tick
  \/ \E s \in Slugs : UpsertBegin(s) \/ Unpublish(s)
  \/ \E s \in Slugs, t \in 1..MaxClock : UpsertCommit(s, t) \/ UpsertAbort(s, t)
  \/ Page \/ NewWalk

IndexSpec == IndexInit /\ [][IndexNext]_indexVars

\* A client that follows every cursor it is given.
FairIndexSpec == IndexSpec /\ WF_indexVars(Page)

----------------------------------------------------------------------------
(* Properties. *)

\* Every variable has its type.
IndexTypeOK ==
  /\ first \in [Slugs -> Nat]
  /\ publishing \subseteq Slugs \X Nat
  /\ clock \in Nat
  /\ cursor \in Cursor
  /\ given \subseteq Slugs /\ twice \subseteq Slugs /\ steady \subseteq Slugs

\* A walk through the index lists every service that stays published
\* throughout, and none of those twice, whatever is published, republished
\* and unpublished between its pages (ListPublishedServiceSummaries: "a keyset
\* cursor over it never skips or repeats a row").
NeverSkipsOrRepeats ==
  /\ cursor.state = "end" => steady \subseteq given
  /\ twice \cap steady = {}

\* A walk comes to an end: publishing and unpublishing cannot keep a client
\* that follows next_cursor busy for ever.
WalkEnds == cursor.state = "next" ~> cursor.state = "end"

============================================================================
